---- MODULE Spec2Model ----
(***************************************************************************)
(* Multi-account email subsystem: the account directory and client cache   *)
(* of EmailAccountManager (app/utils.py) and the OAuth credential cycle of *)
(* GoogleBaseClient (app/modules/google_clients/google_base_client.py).    *)
(***************************************************************************)
EXTENDS Integers, Sequences, FiniteSets, TLC

VARIABLES
    account_configs,      \* EmailAccountManager._account_configs (insertion-ordered dict)
    email_clients,        \* EmailAccountManager._email_clients (name -> client instance)
    available_providers,  \* EmailAccountManager._available_providers (key -> class)
    accounts_file,        \* contents of email_accounts.json
    next_client_id,       \* identity of the next client object to be constructed
    evicted,              \* identities of client objects that were removed from the cache
    ret,                  \* the last manager call and what it returned or raised
    token_file,           \* the token cache file at GoogleBaseClient.token_path
    credentials_file,     \* whether the client-secret file exists
    creds,                \* GoogleBaseClient.creds
    scopes,               \* GoogleBaseClient.scopes (a sorted list)
    pc,                   \* where the GoogleBaseClient is in __init__/_authenticate
    caller,               \* who runs _authenticate, and the scopes add_scopes restores
    auth_log,             \* what the current _authenticate run has done so far
    service,              \* GmailClient.service: the credentials object build() bound
    api_call,             \* the last Gmail API request of the client
    call,                 \* the last call of an adapter, service or codec operation
    threads,              \* the create_email_client calls that concurrent callers have in progress
    email_manager         \* Config.email_accounts and the EmailManager._email_services built on it

manager_vars == <<account_configs, email_clients, available_providers, accounts_file,
                  next_client_id, evicted, ret>>

auth_vars == <<token_file, credentials_file, creds, scopes, pc, caller, auth_log>>

\* the GmailClient and the operations on top of it
gmail_vars == <<service, api_call, call>>

vars == <<manager_vars, auth_vars, gmail_vars, threads, email_manager>>

-----------------------------------------------------------------------------
(* Values *)

None == "None"          \* Python None
null == "null"          \* JSON null

\* email_accounts.json: absent, unparseable, or a JSON object (its entries in order)
Missing == [state |-> "missing", data |-> <<>>]
Corrupt == [state |-> "corrupt", data |-> <<>>]
JsonFile(data) == [state |-> "json", data |-> data]

\* Bound on the number of client objects constructed in one run.
MaxClients == 2

\* Account names the callers use: the synthesized account's and one more.
AccountNames == {"default", "work"}

\* pathlib.Path objects the configurations carry, and their str() forms.
CredPath == "Path(secrets/credentials.json)"
TokenPath == "Path(secrets/token.json)"
TokenPathWork == "Path(secrets/token_work.json)"

\* str(path) of save_accounts_to_file
PathStr(p) ==
    CASE p = CredPath -> "secrets/credentials.json"
      [] p = TokenPath -> "secrets/token.json"
      [] p = TokenPathWork -> "secrets/token_work.json"

\* Path(s) of load_accounts_from_file
StrPath(s) ==
    CASE s = "secrets/credentials.json" -> CredPath
      [] s = "secrets/token.json" -> TokenPath
      [] s = "secrets/token_work.json" -> TokenPathWork

\* str.lower() on the provider tags in use
Lower(s) ==
    CASE s = "Mock" -> "mock"
      [] s = "GMAIL" -> "gmail"
      [] OTHER -> s

-----------------------------------------------------------------------------
(* Python dict with insertion order: a sequence of [key, config] entries *)

DictKeys(d) == {d[i].key : i \in 1..Len(d)}

DictHas(d, k) == k \in DictKeys(d)

DictIndex(d, k) == CHOOSE i \in 1..Len(d) : d[i].key = k

DictGet(d, k) == d[DictIndex(d, k)].config

\* d[k] = v : an existing key keeps its position, a new key goes last
DictSet(d, k, v) ==
    IF DictHas(d, k)
    THEN [d EXCEPT ![DictIndex(d, k)] = [key |-> k, config |-> v]]
    ELSE Append(d, [key |-> k, config |-> v])

\* del d[k]
DictDel(d, k) == SelectSeq(d, LAMBDA e : e.key # k)

-----------------------------------------------------------------------------
(* EmailAccountConfig and the static directory operations *)

EmailAccountConfig(name, provider, display_name, cred, token, enabled, default_account) ==
    [name |-> name, provider |-> provider, display_name |-> display_name,
     google_credentials_path |-> cred, google_token_path |-> token,
     enabled |-> enabled, default_account |-> default_account]

\* for existing_config in accounts.values(): existing_config.default_account = False
ClearDefaults(accounts) ==
    [i \in 1..Len(accounts) |->
        [accounts[i] EXCEPT !.config.default_account = FALSE]]

\* create_account_static without the loop that clears the other defaults
create_account_static_KeepDefaults(accounts, account_config) ==
    DictSet(accounts, account_config.name, account_config)

create_account_static(accounts, account_config) ==
    LET cleared == IF account_config.default_account
                   THEN ClearDefaults(accounts)
                   ELSE accounts
    IN  DictSet(cleared, account_config.name, account_config)

\* delete_account_static without the promotion of the first remaining account
delete_account_static_NoPromotion(accounts, account_name) ==
    IF DictHas(accounts, account_name) THEN DictDel(accounts, account_name) ELSE accounts

delete_account_static(accounts, account_name) ==
    IF DictHas(accounts, account_name)
    THEN LET was_default == DictGet(accounts, account_name).default_account
             rest == DictDel(accounts, account_name)
         IN  IF was_default /\ Len(rest) > 0
             THEN [rest EXCEPT ![1].config.default_account = TRUE]
             ELSE rest
    ELSE accounts

\* updates.get(field, False)
UpdatesGet(updates, field) ==
    IF field \in DOMAIN updates THEN updates[field] ELSE FALSE

\* for field, value in updates.items(): if hasattr(config, field): setattr(...)
ApplyUpdates(config, updates) ==
    [f \in DOMAIN config |->
        IF f \in DOMAIN updates THEN updates[f] ELSE config[f]]

update_account_static(accounts, account_name, updates) ==
    IF ~DictHas(accounts, account_name)
    THEN accounts
    ELSE LET cleared == IF UpdatesGet(updates, "default_account") = TRUE
                        THEN ClearDefaults(accounts)
                        ELSE accounts
         IN  DictSet(cleared, account_name,
                     ApplyUpdates(DictGet(cleared, account_name), updates))

\* for name, config in accounts.items(): if config.default_account and config.enabled
RECURSIVE FirstDefaultEnabled(_, _)
FirstDefaultEnabled(accounts, i) ==
    IF i > Len(accounts) THEN None
    ELSE IF accounts[i].config.default_account /\ accounts[i].config.enabled
         THEN accounts[i].key
         ELSE FirstDefaultEnabled(accounts, i + 1)

\* for name, config in accounts.items(): if config.enabled
RECURSIVE FirstEnabled(_, _)
FirstEnabled(accounts, i) ==
    IF i > Len(accounts) THEN None
    ELSE IF accounts[i].config.enabled
         THEN accounts[i].key
         ELSE FirstEnabled(accounts, i + 1)

\* get_default_account_name_static with a fallback that skips the enabled test
get_default_account_name_static_AnyFirst(accounts) ==
    IF FirstDefaultEnabled(accounts, 1) # None
    THEN FirstDefaultEnabled(accounts, 1)
    ELSE IF Len(accounts) > 0 THEN accounts[1].key ELSE None

get_default_account_name_static(accounts) ==
    IF FirstDefaultEnabled(accounts, 1) # None
    THEN FirstDefaultEnabled(accounts, 1)
    ELSE FirstEnabled(accounts, 1)

-----------------------------------------------------------------------------
(* Persistence: email_accounts.json *)

\* str(path) if path else None
PathToJson(p) == IF p # None THEN PathStr(p) ELSE null

\* Path(data[k]) if data.get(k) else None
JsonToPath(s) == IF s # null /\ s # "" THEN StrPath(s) ELSE None

\* accounts_data[name] = {...}
AccountToJson(config) ==
    [name |-> config.name,
     provider |-> config.provider,
     display_name |-> config.display_name,
     google_credentials_path |-> PathToJson(config.google_credentials_path),
     google_token_path |-> PathToJson(config.google_token_path),
     enabled |-> config.enabled,
     default_account |-> config.default_account]

\* the dictionary json.dump writes
AccountsToJson(accounts) ==
    [i \in 1..Len(accounts) |->
        [key |-> accounts[i].key, data |-> AccountToJson(accounts[i].config)]]

\* save_accounts_to_file that reports success without writing the file
save_accounts_to_file_NoWrite(accounts, file, outcome) ==
    [success |-> outcome = "ok", file |-> file]

\* What the file holds after save_accounts_to_file and whether it returned True.
\* outcome: "ok"; "open_fails" (mkdir or open raised, the file is untouched);
\* "write_fails" (open truncated the file and json.dump raised).
save_accounts_to_file(accounts, file, outcome) ==
    CASE outcome = "ok" -> [success |-> TRUE, file |-> JsonFile(AccountsToJson(accounts))]
      [] outcome = "open_fails" -> [success |-> FALSE, file |-> file]
      [] outcome = "write_fails" -> [success |-> FALSE, file |-> Corrupt]

SaveOutcomes == {"ok", "open_fails", "write_fails"}

\* the runs of Spec: every save succeeds
SaveSucceeds == {"ok"}

_get_default_accounts ==
    << [key |-> "default",
        config |-> EmailAccountConfig("default", "gmail", "Default Gmail Account",
                                      CredPath, TokenPath, TRUE, TRUE)] >>

\* load_accounts_from_file that keeps the synthesized account when the file lists none
load_accounts_from_file_DefaultWhenEmpty(file) ==
    IF file.state # "json" \/ Len(file.data) = 0
    THEN _get_default_accounts
    ELSE [i \in 1..Len(file.data) |->
            [key |-> file.data[i].key,
             config |-> EmailAccountConfig(
                            file.data[i].data.name,
                            file.data[i].data.provider,
                            file.data[i].data.display_name,
                            JsonToPath(file.data[i].data.google_credentials_path),
                            JsonToPath(file.data[i].data.google_token_path),
                            file.data[i].data.enabled,
                            file.data[i].data.default_account)]]

load_accounts_from_file(file) ==
    IF file.state # "json"
    THEN _get_default_accounts
    ELSE [i \in 1..Len(file.data) |->
            [key |-> file.data[i].key,
             config |-> EmailAccountConfig(
                            file.data[i].data.name,
                            file.data[i].data.provider,
                            file.data[i].data.display_name,
                            JsonToPath(file.data[i].data.google_credentials_path),
                            JsonToPath(file.data[i].data.google_token_path),
                            file.data[i].data.enabled,
                            file.data[i].data.default_account)]]

-----------------------------------------------------------------------------
(* Client construction *)

\* EmailConfig.__init__: a copy of the account's fields taken at construction
EmailConfig(account_config) ==
    [account_name |-> account_config.name,
     provider |-> account_config.provider,
     display_name |-> account_config.display_name,
     enabled |-> account_config.enabled,
     default_account |-> account_config.default_account,
     google_credentials_path |-> account_config.google_credentials_path,
     google_token_path |-> account_config.google_token_path]

\* GmailClient.__init__(self) takes no arguments
GmailClientParams == {}

\* GmailClientAdapter(config=None): no configuration given
NoEmailConfig ==
    [account_name |-> None, provider |-> None, display_name |-> None,
     enabled |-> FALSE, default_account |-> FALSE,
     google_credentials_path |-> None, google_token_path |-> None]

\* GmailClientAdapter.__init__ without the check of the token path
GmailClientAdapter_init_NoTokenCheck(config) ==
    IF config = NoEmailConfig
    THEN "ValueError: EmailConfig is required for Gmail client initialization"
    ELSE IF config.google_credentials_path = None
    THEN "ValueError: Google credentials path is required for Gmail client"
    ELSE IF {"credentials_path", "token_path"} \subseteq GmailClientParams
    THEN "ok"
    ELSE "TypeError: __init__() got an unexpected keyword argument"

\* GmailClientAdapter.__init__(config=email_config): "ok" or the exception raised.
\* The adapter calls GmailClient(credentials_path=..., token_path=...).
GmailClientAdapter_init(config) ==
    IF config = NoEmailConfig
    THEN "ValueError: EmailConfig is required for Gmail client initialization"
    ELSE IF config.google_credentials_path = None
    THEN "ValueError: Google credentials path is required for Gmail client"
    ELSE IF config.google_token_path = None
    THEN "ValueError: Google token path is required for Gmail client"
    ELSE IF {"credentials_path", "token_path"} \subseteq GmailClientParams
    THEN "ok"
    ELSE "TypeError: __init__() got an unexpected keyword argument"

\* client_class(config=email_config); a class registered through
\* register_provider is arbitrary code: its constructor returns or raises.
ClientClassCall(client_class, config, outcome) ==
    IF client_class = "GmailClientAdapter"
    THEN GmailClientAdapter_init(config)
    ELSE IF outcome = "ok" THEN "ok" ELSE "Exception: constructor failed"

ConstructorOutcomes == {"ok", "raise"}

-----------------------------------------------------------------------------
(* GoogleBaseClient: scopes, credentials and the token cache file *)

ScopeReadonly == "https://www.googleapis.com/auth/gmail.readonly"
ScopeSend == "https://www.googleapis.com/auth/gmail.send"

ScopeCalendar == "https://www.googleapis.com/auth/calendar"
ScopeDrive == "https://www.googleapis.com/auth/drive"

Scopes == {ScopeReadonly, ScopeSend}

\* the order sorted() puts the scope strings in
ScopeRank(scope) ==
    CASE scope = ScopeCalendar -> 1
      [] scope = ScopeDrive -> 2
      [] scope = ScopeReadonly -> 3
      [] OTHER -> 4

RECURSIVE InsertSorted(_, _)
InsertSorted(x, list) ==
    IF list = <<>> THEN <<x>>
    ELSE IF ScopeRank(x) <= ScopeRank(Head(list)) THEN <<x>> \o list
    ELSE <<Head(list)>> \o InsertSorted(x, Tail(list))

\* sorted(list): duplicates stay
RECURSIVE sorted(_)
sorted(list) ==
    IF list = <<>> THEN <<>> ELSE InsertSorted(Head(list), sorted(Tail(list)))

\* set(list)
set(list) == {list[i] : i \in 1..Len(list)}

\* sorted(a_set)
RECURSIVE sorted_set(_)
sorted_set(S) ==
    IF S = {} THEN <<>>
    ELSE LET m == CHOOSE x \in S : \A y \in S : ScopeRank(x) <= ScopeRank(y)
         IN  <<m>> \o sorted_set(S \ {m})

\* self.creds = None
NoCreds ==
    [present |-> FALSE, valid |-> FALSE, expired |-> FALSE, refresh_token |-> FALSE,
     scopes |-> <<>>, origin |-> "none"]

\* google.oauth2.credentials.Credentials: valid, expired, refresh_token, scopes;
\* origin tells where the object came from: the token file or the consent flow
Credentials(valid, expired, refresh_token, scope_list, origin) ==
    [present |-> TRUE, valid |-> valid, expired |-> expired,
     refresh_token |-> refresh_token, scopes |-> scope_list, origin |-> origin]

\* the token file: absent, or its content: whether json.load accepts it, the
\* scopes it records, whether from_authorized_user_file accepts it, and the
\* credentials it holds
NoFile ==
    [exists |-> FALSE, json_ok |-> FALSE, scopes |-> <<>>, loadable |-> FALSE,
     creds |-> NoCreds]

TokenFile(json_ok, scope_list, loadable, credentials) ==
    [exists |-> TRUE, json_ok |-> json_ok, scopes |-> scope_list,
     loadable |-> loadable, creds |-> credentials]

\* an entry of the log of one _authenticate run: what happened, and the scope
\* list it happened with (the required scopes at the start of the run, the
\* recorded scopes of the token file found, the scopes the consent asked for)
EventWith(ev, scope_list) == [ev |-> ev, scopes |-> scope_list]

Event(ev) == EventWith(ev, <<>>)

Events(log) == {log[i].ev : i \in 1..Len(log)}

\* _load_existing_credentials without the comparison of the scope sets
_load_existing_credentials_NoScopeCheck(file, scope_list) ==
    IF ~file.json_ok
    THEN [raised |-> "JSONDecodeError", creds |-> NoCreds]
    ELSE IF ~file.loadable
    THEN [raised |-> "ValueError: from_authorized_user_file", creds |-> NoCreds]
    ELSE [raised |-> "",
          creds |-> Credentials(file.creds.valid, file.creds.expired,
                                file.creds.refresh_token, scope_list, "file")]

\* _load_existing_credentials: the credentials loaded, or the exception raised
_load_existing_credentials(file, scope_list) ==
    IF ~file.json_ok
    THEN [raised |-> "JSONDecodeError", creds |-> NoCreds]
    ELSE IF set(file.scopes) # set(scope_list)
    THEN [raised |-> "ValueError: Scope mismatch", creds |-> NoCreds]
    ELSE IF ~file.loadable
    THEN [raised |-> "ValueError: from_authorized_user_file", creds |-> NoCreds]
    ELSE [raised |-> "",
          creds |-> Credentials(file.creds.valid, file.creds.expired,
                                file.creds.refresh_token, scope_list, "file")]

\* _cleanup_invalid_token: the file afterwards (os.remove may raise OSError,
\* which is logged and swallowed)
_cleanup_invalid_token(file, outcome) ==
    IF file.exists /\ outcome = "ok" THEN NoFile ELSE file

RemoveOutcomes == {"ok", "OSError"}

\* _save_credentials that writes nothing
_save_credentials_NoWrite(file, credentials, outcome) == file

\* _save_credentials: the file afterwards; a failure is logged and swallowed.
\* outcome: "ok"; "open_fails" (the file is untouched); "write_fails" (open
\* truncated the file and the write raised)
_save_credentials(file, credentials, outcome) ==
    CASE outcome = "ok" ->
            TokenFile(TRUE, credentials.scopes, TRUE,
                      Credentials(credentials.valid, credentials.expired,
                                  credentials.refresh_token, credentials.scopes, "file"))
      [] outcome = "open_fails" -> file
      [] outcome = "write_fails" -> TokenFile(FALSE, <<>>, FALSE, NoCreds)

\* GmailClient.service before build()
NoService == [built |-> FALSE, shared |-> FALSE, creds |-> NoCreds]

\* no Gmail API request yet
NoApiCall ==
    [op |-> "none", sent |-> FALSE, raised |-> "", creds |-> NoCreds,
     client_creds |-> NoCreds, required |-> <<>>]

\* no adapter, service or codec operation called yet
NoCall == [op |-> "none"]

\* the GmailClient before construction, no operation called
\* the callers that share one EmailAccountManager
Callers == {"t1", "t2"}

\* a caller outside create_email_client
IdleThread == [pc |-> "idle", name |-> "", client_class |-> "", id |-> 0, result |-> ""]

\* no call in progress, and nothing written to the cache yet
ThreadsIdle == threads = [of |-> [t \in Callers |-> IdleThread], writes |-> <<>>]

\* Config.email_accounts as Config.__init__ leaves it: the default_factory value,
\* replaced by the accounts of email_accounts.json when the file loads and is not empty
Config_email_accounts(file) ==
    IF file.state = "json" /\ Len(file.data) > 0
    THEN [i \in 1..Len(file.data) |->
            [key |-> file.data[i].key,
             config |-> [name |-> file.data[i].data.name,
                         provider |-> file.data[i].data.provider,
                         display_name |-> file.data[i].data.display_name,
                         google_credentials_path |->
                            IF file.data[i].data.google_credentials_path \notin {"null", ""}
                            THEN StrPath(file.data[i].data.google_credentials_path)
                            ELSE "None",
                         google_token_path |->
                            IF file.data[i].data.google_token_path \notin {"null", ""}
                            THEN StrPath(file.data[i].data.google_token_path)
                            ELSE "None",
                         enabled |-> file.data[i].data.enabled,
                         default_account |-> file.data[i].data.default_account]]]
    ELSE << [key |-> "default",
             config |-> [name |-> "default", provider |-> "gmail",
                         display_name |-> "Default Gmail Account",
                         google_credentials_path |-> CredPath,
                         google_token_path |-> TokenPath,
                         enabled |-> TRUE, default_account |-> TRUE]] >>

\* Config() followed by EmailManager(config): no EmailService created yet
EmailManagerNew ==
    email_manager = [email_accounts |-> Config_email_accounts(accounts_file),
                     default_email_account |-> "default",
                     email_services |-> [n \in {} |-> ""]]

GmailIdle ==
    /\ service = NoService
    /\ api_call = NoApiCall
    /\ call = NoCall

\* the GoogleBaseClient before construction
AuthIdle ==
    /\ token_file = NoFile
    /\ credentials_file = TRUE
    /\ creds = NoCreds
    /\ scopes = <<>>
    /\ pc = "new"
    /\ caller = [kind |-> "none", old_scopes |-> <<>>, returned |-> ""]
    /\ auth_log = <<>>

\* GoogleBaseClient.__init__: up to the call of _authenticate
GoogleBaseClient_init(scope_list) ==
    /\ pc = "new"
    /\ creds' = NoCreds
    /\ scopes' = sorted(scope_list)
    /\ caller' = [kind |-> "__init__", old_scopes |-> <<>>, returned |-> ""]
    /\ auth_log' = <<EventWith("authenticate", sorted(scope_list))>>
    /\ pc' = "load"
    /\ UNCHANGED <<token_file, credentials_file, manager_vars, gmail_vars, threads, email_manager>>

\* an exception leaves _authenticate: __init__ fails, add_scopes restores the
\* old scopes and returns False
Raise(log) ==
    /\ auth_log' = Append(log, Event("raise"))
    /\ IF caller.kind = "add_scopes"
       THEN /\ scopes' = caller.old_scopes
            /\ caller' = [caller EXCEPT !.returned = "False"]
            /\ pc' = "ready"
       ELSE /\ scopes' = scopes
            /\ caller' = caller
            /\ pc' = "dead"

\* _authenticate, step 1: load the token file if it exists
_authenticate_load(remove_outcome) ==
    /\ pc = "load"
    /\ IF ~token_file.exists
       THEN /\ auth_log' = Append(auth_log, Event("no_token_file"))
            /\ UNCHANGED <<creds, token_file, threads, email_manager>>
       ELSE LET loaded == _load_existing_credentials(token_file, scopes)
                found == EventWith(IF token_file.json_ok THEN "token_file"
                                   ELSE "token_file_unreadable", token_file.scopes)
            IN  IF loaded.raised = ""
                THEN /\ creds' = loaded.creds
                     /\ auth_log' = auth_log \o <<found, Event("loaded")>>
                     /\ UNCHANGED token_file
                ELSE /\ creds' = NoCreds
                     /\ token_file' = _cleanup_invalid_token(token_file, remove_outcome)
                     /\ auth_log' =
                            auth_log
                            \o << found,
                                  Event(IF loaded.raised = "ValueError: Scope mismatch"
                                        THEN "scope_mismatch" ELSE "load_error"),
                                  Event(IF remove_outcome = "ok"
                                        THEN "removed" ELSE "remove_failed") >>
    /\ pc' = "validate"
    /\ UNCHANGED <<credentials_file, scopes, caller, manager_vars, gmail_vars, threads, email_manager>>

RefreshOutcomes == {"ok", "RefreshError", "TransportError"}

\* _authenticate, step 2: refresh expired credentials that carry a refresh token
_authenticate_refresh(outcome) ==
    /\ pc = "validate"
    /\ IF ~creds.present \/ ~creds.valid
       THEN IF creds.present /\ creds.expired /\ creds.refresh_token
            THEN CASE outcome = "ok" ->
                        /\ creds' = [creds EXCEPT !.valid = TRUE, !.expired = FALSE]
                        /\ auth_log' = Append(auth_log, Event("refreshed"))
                        /\ pc' = "save"
                        /\ UNCHANGED <<scopes, caller, threads, email_manager>>
                   [] outcome = "RefreshError" ->
                        /\ creds' = NoCreds
                        /\ auth_log' = Append(auth_log, Event("refresh_failed"))
                        /\ pc' = "consent"
                        /\ UNCHANGED <<scopes, caller, threads, email_manager>>
                   [] outcome = "TransportError" ->
                        /\ creds' = creds
                        /\ Raise(Append(auth_log, Event("refresh_failed")))
            ELSE /\ pc' = "consent"
                 /\ UNCHANGED <<creds, auth_log, scopes, caller, threads, email_manager>>
       ELSE /\ pc' = "save"
            /\ UNCHANGED <<creds, auth_log, scopes, caller, threads, email_manager>>
    /\ UNCHANGED <<token_file, credentials_file, manager_vars, gmail_vars, threads, email_manager>>

FlowOutcomes == {"ok", "fails"}

\* _authenticate, step 3: _start_oauth_flow
_authenticate_oauth_flow(outcome) ==
    /\ pc = "consent"
    /\ IF ~credentials_file
       THEN /\ creds' = creds
            /\ Raise(Append(auth_log, Event("FileNotFoundError")))
       ELSE IF outcome = "ok"
       THEN /\ creds' = Credentials(TRUE, FALSE, TRUE, scopes, "consent")
            /\ auth_log' = Append(auth_log, EventWith("consent", scopes))
            /\ pc' = "save"
            /\ UNCHANGED <<scopes, caller, threads, email_manager>>
       ELSE /\ creds' = creds
            /\ Raise(Append(auth_log, EventWith("consent", scopes)))
    /\ UNCHANGED <<token_file, credentials_file, manager_vars, gmail_vars, threads, email_manager>>

TokenSaveOutcomes == {"ok", "open_fails", "write_fails"}

\* _authenticate, step 4: _save_credentials, and the return; when __init__ of
\* the subclass called, it goes on to build(credentials=self.creds)
_authenticate_save(outcome) ==
    /\ pc = "save"
    /\ token_file' = _save_credentials(token_file, creds, outcome)
    /\ auth_log' = Append(auth_log, Event(IF outcome = "ok" THEN "saved" ELSE "save_failed"))
    /\ caller' = IF caller.kind = "add_scopes"
                 THEN [caller EXCEPT !.returned = "True"]
                 ELSE caller
    /\ pc' = "ready"
    /\ service' = IF caller.kind = "__init__"
                  THEN [built |-> TRUE, shared |-> TRUE, creds |-> creds]
                  ELSE service
    /\ UNCHANGED <<creds, credentials_file, scopes, manager_vars, api_call, call, threads, email_manager>>

\* add_scopes: up to the call of _authenticate, or the early return
add_scopes(additional_scopes, remove_outcome) ==
    /\ pc = "ready"
    /\ LET new_scopes == sorted_set(set(scopes \o additional_scopes))
       IN  IF new_scopes = scopes
           THEN /\ caller' = [kind |-> "add_scopes", old_scopes |-> scopes,
                              returned |-> "True"]
                /\ UNCHANGED <<scopes, token_file, creds, auth_log, pc, service, threads, email_manager>>
           ELSE /\ caller' = [kind |-> "add_scopes", old_scopes |-> scopes,
                              returned |-> ""]
                /\ scopes' = new_scopes
                /\ token_file' = _cleanup_invalid_token(token_file, remove_outcome)
                /\ creds' = NoCreds
                /\ service' = [service EXCEPT !.shared = FALSE]
                /\ auth_log' = << EventWith("authenticate", new_scopes),
                                  Event(IF token_file.exists /\ remove_outcome = "ok"
                                        THEN "removed"
                                        ELSE IF token_file.exists THEN "remove_failed"
                                        ELSE "nothing_to_remove") >>
                /\ pc' = "load"
    /\ UNCHANGED <<credentials_file, manager_vars, api_call, call, threads, email_manager>>

\* the access token of a credentials object runs out
Expire(credentials) ==
    IF credentials.present /\ credentials.valid
    THEN [credentials EXCEPT !.valid = FALSE, !.expired = TRUE]
    ELSE credentials

\* time passes: the access tokens of the client's credentials objects run out
token_expires ==
    /\ pc = "ready"
    /\ creds.valid \/ service.creds.valid
    /\ creds' = Expire(creds)
    /\ service' = [service EXCEPT !.creds = Expire(service.creds)]
    /\ UNCHANGED <<token_file, credentials_file, scopes, pc, caller, auth_log,
                   manager_vars, api_call, call, threads, email_manager>>

\* the scope a Gmail API operation needs
OpScope(op) == IF op = "messages.send" THEN ScopeSend ELSE ScopeReadonly

ApiOps == {"messages.list", "messages.send"}

\* a GmailClient method issues self.service.users()...execute(): the request
\* goes out with the credentials object build() bound at construction, which
\* the transport refreshes first when it is not valid; the method itself does
\* not look at self.creds. A caller uses operations whose scope it required.
api_request(op, refresh_outcome) ==
    /\ pc = "ready"
    /\ service.built
    /\ OpScope(op) \in set(scopes)
    /\ LET bound == service.creds
           ok == bound.valid \/ (bound.refresh_token /\ refresh_outcome = "ok")
           used == [bound EXCEPT !.valid = TRUE, !.expired = FALSE]
       IN  IF ok
           THEN /\ service' = [service EXCEPT !.creds = used]
                /\ creds' = IF service.shared THEN used ELSE creds
                /\ api_call' = [op |-> op, sent |-> TRUE, raised |-> "",
                                creds |-> used,
                                client_creds |-> IF service.shared THEN used ELSE creds,
                                required |-> scopes]
           ELSE /\ api_call' = [op |-> op, sent |-> FALSE, raised |-> "RefreshError",
                                creds |-> bound, client_creds |-> creds,
                                required |-> scopes]
                /\ UNCHANGED <<service, creds, threads, email_manager>>
    /\ UNCHANGED <<token_file, credentials_file, scopes, pc, caller, auth_log,
                   manager_vars, call, threads, email_manager>>

\* the token file and the client-secret file a client of a Google service
\* uses: __init__ takes both from the global configuration, whatever the
\* service and the account
token_path(service_name) == "config.google_token_path"

credentials_path(service_name) == "config.google_credentials_path"

\* the scopes CalendarClient and DriveClient construct themselves with
ServiceScopes(service_name) ==
    IF service_name = "Calendar" THEN <<ScopeCalendar>> ELSE <<ScopeDrive>>

OtherServices == {"Calendar", "Drive"}

\* one whole _authenticate run on a token file: the file and the credentials
\* afterwards, and whether the run raised
_authenticate_run(file, secret_exists, scope_list, remove_outcome, refresh_outcome, flow_outcome, save_outcome) ==
    LET loaded == IF file.exists THEN _load_existing_credentials(file, scope_list)
                  ELSE [raised |-> "", creds |-> NoCreds]
        file1 == IF file.exists /\ loaded.raised # ""
                 THEN _cleanup_invalid_token(file, remove_outcome) ELSE file
        c1 == loaded.creds
        refreshes == c1.present /\ ~c1.valid /\ c1.expired /\ c1.refresh_token
        raised2 == refreshes /\ refresh_outcome = "TransportError"
        c2 == IF ~refreshes \/ raised2 THEN c1
              ELSE IF refresh_outcome = "ok"
              THEN [c1 EXCEPT !.valid = TRUE, !.expired = FALSE]
              ELSE NoCreds
        flows == ~raised2 /\ (~c2.present \/ ~c2.valid)
        raised3 == flows /\ (~secret_exists \/ flow_outcome # "ok")
        c3 == IF flows /\ ~raised3
              THEN Credentials(TRUE, FALSE, TRUE, scope_list, "consent") ELSE c2
        raised == raised2 \/ raised3
    IN  [file |-> IF raised THEN file1 ELSE _save_credentials(file1, c3, save_outcome),
         creds |-> c3, raised |-> raised]

\* CalendarClient() or DriveClient() is constructed while the Gmail client is
\* not inside a call: GoogleBaseClient.__init__ runs _authenticate on the
\* token file at its token path
other_client_init(service_name, remove_outcome, refresh_outcome, flow_outcome, save_outcome) ==
    /\ pc \in {"new", "ready"}
    /\ LET run == _authenticate_run(token_file, credentials_file,
                                    sorted(ServiceScopes(service_name)), remove_outcome,
                                    refresh_outcome, flow_outcome, save_outcome)
           after == IF token_path(service_name) = token_path("Gmail")
                    THEN run.file ELSE token_file
       IN  /\ token_file' = after
           /\ call' = [op |-> "GoogleBaseClient.__init__", service |-> service_name,
                       before |-> token_file, after |-> after, raised |-> run.raised]
    /\ UNCHANGED <<credentials_file, creds, scopes, pc, caller, auth_log,
                   manager_vars, service, api_call, threads, email_manager>>

\* the scope lists callers construct clients with and add later (a list may
\* name a scope twice)
ScopeLists ==
    { <<ScopeReadonly>>, <<ScopeSend, ScopeReadonly>>, <<ScopeSend>>,
      <<ScopeReadonly, ScopeReadonly>> }

\* the credentials a token file left by an earlier run may hold
StoredCredentials ==
    { Credentials(TRUE, FALSE, TRUE, <<>>, "file"),
      Credentials(FALSE, TRUE, TRUE, <<>>, "file"),
      Credentials(FALSE, TRUE, FALSE, <<>>, "file") }

InitialTokenFiles ==
    {NoFile, TokenFile(FALSE, <<>>, FALSE, NoCreds)}
    \cup { TokenFile(TRUE, sorted_set(set(l)), TRUE, c) :
                l \in ScopeLists, c \in StoredCredentials }
    \cup { TokenFile(TRUE, <<ScopeReadonly>>, FALSE, NoCreds) }

InitAuth ==
    /\ accounts_file = Missing
    /\ account_configs = load_accounts_from_file(accounts_file)
    /\ email_clients = [n \in {} |-> 0]
    /\ available_providers = [k \in {"gmail"} |-> "GmailClientAdapter"]
    /\ next_client_id = 1
    /\ evicted = {}
    /\ ret = [op |-> "__init__", name |-> None, result |-> None, id |-> 0,
              was_default |-> FALSE]
    /\ token_file \in InitialTokenFiles
    /\ credentials_file \in BOOLEAN
    /\ creds = NoCreds
    /\ scopes = <<>>
    /\ pc = "new"
    /\ caller = [kind |-> "none", old_scopes |-> <<>>, returned |-> ""]
    /\ auth_log = <<>>
    /\ GmailIdle
    /\ ThreadsIdle
    /\ EmailManagerNew

NextAuth ==
    \/ \E l \in ScopeLists : GoogleBaseClient_init(l)
    \/ \E o \in RemoveOutcomes : _authenticate_load(o)
    \/ \E o \in RefreshOutcomes : _authenticate_refresh(o)
    \/ \E o \in FlowOutcomes : _authenticate_oauth_flow(o)
    \/ \E o \in TokenSaveOutcomes : _authenticate_save(o)
    \/ \E l \in ScopeLists, o \in RemoveOutcomes : add_scopes(l, o)
    \/ token_expires
    \/ \E op \in ApiOps, o \in {"ok", "RefreshError"} : api_request(op, o)

SpecAuth == InitAuth /\ [][NextAuth]_vars

\* the Gmail client's construction, and clients of other Google services
\* constructed before or after it
NextServices ==
    \/ \E l \in {<<ScopeReadonly>>, <<ScopeSend, ScopeReadonly>>} : GoogleBaseClient_init(l)
    \/ \E o \in RemoveOutcomes : _authenticate_load(o)
    \/ \E o \in RefreshOutcomes : _authenticate_refresh(o)
    \/ \E o \in FlowOutcomes : _authenticate_oauth_flow(o)
    \/ \E o \in TokenSaveOutcomes : _authenticate_save(o)
    \/ \E sv \in OtherServices, rm \in RemoveOutcomes, rf \in RefreshOutcomes,
          fl \in FlowOutcomes, o \in TokenSaveOutcomes :
            other_client_init(sv, rm, rf, fl, o)

SpecServices == InitAuth /\ [][NextServices]_vars

-----------------------------------------------------------------------------
(* GmailClientAdapter: what each operation does with the provider client's outcome *)

\* what a method of the underlying GmailClient may raise
ProviderExceptions ==
    {"HttpError 403", "HttpError 404", "RefreshError", "TimeoutError", "AttributeError"}

\* the outcome of the call of the underlying client: it returns, or raises
ProviderOutcomes == {"ok"} \cup ProviderExceptions

\* the adapter operations that wrap one call of the underlying client
DictOps ==
    {"send_email", "reply_to_message", "create_draft", "update_draft", "send_draft",
     "create_folder"}

BoolOps ==
    {"mark_as_read", "mark_as_unread", "delete_message", "move_to_folder", "delete_draft",
     "delete_folder"}

ListOps ==
    {"list_messages", "search_messages", "list_drafts", "list_folders",
     "get_unread_messages"}

RaisingOps == {"get_profile", "get_message"}

AdapterOps == DictOps \cup BoolOps \cup ListOps \cup RaisingOps \cup {"count_unread_messages"}

\* a value an adapter operation returns: its shape ("dict", "bool", "list",
\* "int"), and what it holds
Value(shape, success, error) ==
    [shape |-> shape, success |-> success, error |-> error,
     provider |-> IF shape = "dict" THEN "gmail" ELSE ""]

\* an operation returned a value, or raised
Returned(value) == [raised |-> "", value |-> value]

Raised(exception) == [raised |-> exception, value |-> Value("none", FALSE, "")]

\* an adapter in which delete_message lets the exception through
GmailClientAdapter_call_DeleteRaises(op, outcome) ==
    IF outcome = "ok"
    THEN Returned(Value(CASE op \in DictOps \cup RaisingOps -> "dict"
                          [] op \in BoolOps -> "bool"
                          [] op \in ListOps -> "list"
                          [] OTHER -> "int", TRUE, ""))
    ELSE CASE op \in RaisingOps \cup {"delete_message"} -> Raised(outcome)
           [] op \in DictOps -> Returned(Value("dict", FALSE, outcome))
           [] op \in BoolOps -> Returned(Value("bool", FALSE, ""))
           [] op \in ListOps -> Returned(Value("list", FALSE, ""))
           [] OTHER -> Returned(Value("int", FALSE, ""))

\* the body of an adapter operation: try the underlying client and return the
\* standardized result; except Exception: log, then re-raise (get_profile,
\* get_message) or return the operation's failure value:
\* {success: False, error: str(e), provider: 'gmail'}, False, [] or 0
GmailClientAdapter_call(op, outcome) ==
    IF outcome = "ok"
    THEN Returned(Value(CASE op \in DictOps \cup RaisingOps -> "dict"
                          [] op \in BoolOps -> "bool"
                          [] op \in ListOps -> "list"
                          [] OTHER -> "int", TRUE, ""))
    ELSE CASE op \in RaisingOps -> Raised(outcome)
           [] op \in DictOps -> Returned(Value("dict", FALSE, outcome))
           [] op \in BoolOps -> Returned(Value("bool", FALSE, ""))
           [] op \in ListOps -> Returned(Value("list", FALSE, ""))
           [] OTHER -> Returned(Value("int", FALSE, ""))

\* a caller calls an adapter operation
adapter_call(op, outcome) ==
    /\ call' = [op |-> op, outcome |-> outcome,
                result |-> GmailClientAdapter_call(op, outcome)]
    /\ UNCHANGED <<manager_vars, auth_vars, service, api_call, threads, email_manager>>

-----------------------------------------------------------------------------
(* EmailService.send_email: feature gating *)

\* html_body arguments: None, the empty string, a document
HtmlBodies == {None, "", "<p>Hello</p>"}

\* attachments arguments: None or [] (both falsy, both the empty sequence
\* here) and a list of one path
AttachmentLists == {<<>>, <<"report.pdf">>}

\* the features a client may answer supports_feature(...) with True for
FeatureSets == SUBSET {"html_email", "attachments"}

\* what self.email_client.send_email(...) does: it returns a success dict,
\* returns a failure dict, or raises
ClientSendOutcomes == {"ok", "failure", "ConnectionError"}

\* the arguments send_email hands to the client (called: whether it was called)
ClientArgs(called, html_body, attachments) ==
    [called |-> called, html_body |-> html_body, attachments |-> attachments]

\* the dict EmailService.send_email returns
ServiceResult(success, error, service_name, html, attachments) ==
    [success |-> success, error |-> error, service |-> service_name,
     features_used |-> [html |-> html, attachments |-> attachments]]

\* EmailService.send_email that answers an unsupported html_body with an error
EmailService_send_email_RejectsHtml(valid, validate_recipients, html_body, attachments, features, outcome) ==
    IF validate_recipients /\ ~valid
    THEN [result |-> ServiceResult(FALSE, "Invalid email addresses", "", FALSE, FALSE),
          client_args |-> ClientArgs(FALSE, None, <<>>)]
    ELSE IF html_body \notin {None, ""} /\ "html_email" \notin features
    THEN [result |-> ServiceResult(FALSE, "HTML emails are not supported", "EmailService",
                                   FALSE, FALSE),
          client_args |-> ClientArgs(FALSE, None, <<>>)]
    ELSE LET att == IF attachments # <<>> /\ "attachments" \notin features
                    THEN <<>> ELSE attachments
         IN  [result |->
                CASE outcome = "ok" ->
                        ServiceResult(TRUE, "", "EmailService", html_body # None, att # <<>>)
                  [] outcome = "failure" ->
                        ServiceResult(FALSE, "provider failure", "", FALSE, FALSE)
                  [] OTHER ->
                        ServiceResult(FALSE, outcome, "EmailService", FALSE, FALSE),
              client_args |-> ClientArgs(TRUE, html_body, att)]

\* EmailService.send_email: the dict returned, and what the client was called
\* with. valid: whether every recipient address matches the pattern.
EmailService_send_email(valid, validate_recipients, html_body, attachments, features, outcome) ==
    IF validate_recipients /\ ~valid
    THEN [result |-> ServiceResult(FALSE, "Invalid email addresses", "", FALSE, FALSE),
          client_args |-> ClientArgs(FALSE, None, <<>>)]
    ELSE LET html == IF html_body \notin {None, ""} /\ "html_email" \notin features
                     THEN None ELSE html_body
             att == IF attachments # <<>> /\ "attachments" \notin features
                    THEN <<>> ELSE attachments
         IN  [result |->
                CASE outcome = "ok" ->
                        ServiceResult(TRUE, "", "EmailService", html # None, att # <<>>)
                  [] outcome = "failure" ->
                        ServiceResult(FALSE, "provider failure", "", FALSE, FALSE)
                  [] OTHER ->
                        ServiceResult(FALSE, outcome, "EmailService", FALSE, FALSE),
              client_args |-> ClientArgs(TRUE, html, att)]

\* a caller sends an email through the service
service_send_email(valid, validate_recipients, html_body, attachments, features, outcome) ==
    /\ call' = [op |-> "EmailService.send_email",
                valid |-> valid, validate_recipients |-> validate_recipients,
                html_body |-> html_body, attachments |-> attachments,
                features |-> features, outcome |-> outcome,
                sent |-> EmailService_send_email(valid, validate_recipients, html_body,
                                                 attachments, features, outcome)]
    /\ UNCHANGED <<manager_vars, auth_vars, service, api_call, threads, email_manager>>

-----------------------------------------------------------------------------
(* GmailClient.reply_to_message and _create_message *)

\* the line separators a message text may hold
LF == "LF"
CRLF == "CRLF"

\* message text is a sequence of pieces: header lines, line separators, and
\* runs of other text
HeaderLine(name, value) == [kind |-> "header", name |-> name, value |-> value]
Sep(s) == [kind |-> "sep", name |-> s, value |-> ""]
Text(t) == [kind |-> "text", name |-> "", value |-> t]

SamePiece(a, b) == a.kind = b.kind /\ a.name = b.name /\ a.value = b.value

\* str.startswith
startswith(s, prefix) ==
    Len(s) >= Len(prefix) /\ SubSeq(s, 1, Len(prefix)) = prefix

\* h['name'].lower()
lower(name) ==
    CASE name = "From" -> "from"
      [] name = "To" -> "to"
      [] name = "Cc" -> "cc"
      [] name = "Subject" -> "subject"
      [] name \in {"Message-ID", "Message-Id"} -> "message-id"
      [] name = "References" -> "references"
      [] OTHER -> name

\* name in {h['name'].lower() for h in headers}
HeadersHas(headers, name) ==
    \E i \in 1..Len(headers) : lower(headers[i].name) = name

\* {h['name'].lower(): h['value'] for h in headers}.get(name, default): the
\* last header of that name wins
RECURSIVE HeadersGet(_, _, _)
HeadersGet(headers, name, default) ==
    IF headers = <<>> THEN default
    ELSE IF lower(headers[Len(headers)].name) = name
         THEN headers[Len(headers)].value
         ELSE HeadersGet(SubSeq(headers, 1, Len(headers) - 1), name, default)

\* the generator writes every line of a payload with its own separator
NormaliseLines(text) ==
    [i \in 1..Len(text) |-> IF text[i].kind = "sep" THEN Sep(LF) ELSE text[i]]

RECURSIVE HeaderLines(_)
HeaderLines(headers) ==
    IF headers = <<>> THEN <<>>
    ELSE <<headers[1], Sep(LF)>> \o HeaderLines(Tail(headers))

\* msg.as_bytes(): header lines, a blank line, the payload; the separator of
\* the default policy is "\n"
as_bytes(headers, payload) ==
    HeaderLines(headers) \o <<Sep(LF)>> \o payload

\* email.mime.text.MIMEText(text, subtype)
MIMEText(text, subtype) ==
    [headers |-> <<HeaderLine("Content-Type", subtype),
                   HeaderLine("MIME-Version", "1.0"),
                   HeaderLine("Content-Transfer-Encoding", "7bit")>>,
     payload |-> NormaliseLines(text)]

\* the part _create_message attaches for a file
MIMEBase(file_path) ==
    [headers |-> <<HeaderLine("Content-Type", "application/octet-stream"),
                   HeaderLine("MIME-Version", "1.0"),
                   HeaderLine("Content-Transfer-Encoding", "base64"),
                   HeaderLine("Content-Disposition", file_path)>>,
     payload |-> <<Text(file_path)>>]

RECURSIVE MultipartPayload(_)
MultipartPayload(parts) ==
    IF parts = <<>> THEN <<Text("--boundary--"), Sep(LF)>>
    ELSE <<Text("--boundary"), Sep(LF)>>
            \o as_bytes(parts[1].headers, parts[1].payload) \o <<Sep(LF)>>
            \o MultipartPayload(Tail(parts))

\* base64.urlsafe_b64encode(...).decode('utf-8') of a message text, and
\* base64.urlsafe_b64decode(...).decode('utf-8') of what it gave
urlsafe_b64encode(text) == [encoding |-> "base64url", data |-> text]
urlsafe_b64decode(raw) == raw.data

\* the To, Subject, Cc and Bcc headers _create_message sets
AddressHeaders(to, subject, cc, bcc) ==
    <<HeaderLine("To", to), HeaderLine("Subject", subject)>>
        \o (IF cc # <<>> THEN <<HeaderLine("Cc", cc)>> ELSE <<>>)
        \o (IF bcc # <<>> THEN <<HeaderLine("Bcc", bcc)>> ELSE <<>>)

\* GmailClient._create_message; to, cc and bcc are address lists; None and ''
\* are both the empty sequence where the code tests truthiness only
_create_message(to, subject, body, cc, bcc, attachments, html_body) ==
    IF attachments # <<>> \/ html_body # <<>>
    THEN LET subtype == IF html_body # <<>>
                        THEN "multipart/alternative" ELSE "multipart/mixed"
             parts == <<MIMEText(body, "text/plain")>>
                        \o (IF html_body # <<>>
                            THEN <<MIMEText(html_body, "text/html")>> ELSE <<>>)
                        \o [i \in 1..Len(attachments) |-> MIMEBase(attachments[i])]
         IN  [raw |-> urlsafe_b64encode(
                        as_bytes(<<HeaderLine("Content-Type", subtype),
                                   HeaderLine("MIME-Version", "1.0")>>
                                    \o AddressHeaders(to, subject, cc, bcc),
                                 MultipartPayload(parts)))]
    ELSE LET msg == MIMEText(body, "text/plain")
         IN  [raw |-> urlsafe_b64encode(
                        as_bytes(msg.headers \o AddressHeaders(to, subject, cc, bcc),
                                 msg.payload))]

\* position of the first occurrence of old in text, 0 when there is none
find(text, old) ==
    LET At == {i \in 1..(Len(text) - Len(old) + 1) :
                    \A k \in 1..Len(old) : SamePiece(text[i + k - 1], old[k])}
    IN  IF At = {} THEN 0 ELSE CHOOSE i \in At : \A j \in At : i <= j

\* text.replace(old, new, 1)
replace(text, old, new) ==
    LET i == find(text, old)
    IN  IF i = 0 THEN text
        ELSE SubSeq(text, 1, i - 1) \o new \o SubSeq(text, i + Len(old), Len(text))

\* 'Re:' and the prefix the reply subject gets
Re == <<"R", "e", ":">>
RePrefix == <<"R", "e", ":", " ">>

NoMessage == [raw |-> urlsafe_b64encode(<<>>), threadId |-> None]

\* GmailClient.reply_to_message: the message handed to messages().send, and the
\* exception that leaves the method (None when it returns)
reply_to_message_result(original, body, html_body, reply_all, attachments, get_outcome, send_outcome) ==
    IF get_outcome # "ok" THEN [sent |-> FALSE, message |-> NoMessage, raised |-> get_outcome]
    ELSE
    LET headers == original.headers
        to == HeadersGet(headers, "from", <<>>)
        cc == IF reply_all
              THEN HeadersGet(headers, "to", <<>>) \o HeadersGet(headers, "cc", <<>>)
              ELSE <<>>
        original_subject == HeadersGet(headers, "subject", <<>>)
        subject == IF ~startswith(original_subject, Re)
                   THEN RePrefix \o original_subject ELSE original_subject
        message == _create_message(to, subject, body, cc, <<>>, attachments, html_body)
        message_id == HeadersGet(headers, "message-id", None)
        old_references == HeadersGet(headers, "references", <<>>)
        references == IF old_references # <<>>
                      THEN Append(old_references, message_id) ELSE <<message_id>>
        raw == IF message_id # None
               THEN urlsafe_b64encode(
                        replace(urlsafe_b64decode(message.raw),
                                <<Sep(CRLF), Sep(CRLF)>>,
                                <<Sep(CRLF), HeaderLine("In-Reply-To", message_id),
                                  Sep(CRLF), HeaderLine("References", references),
                                  Sep(CRLF), Sep(CRLF)>>))
               ELSE message.raw
    IN  IF ~HeadersHas(headers, "from")
        THEN [sent |-> FALSE, message |-> NoMessage, raised |-> "TypeError"]
        ELSE [sent |-> TRUE,
              message |-> [raw |-> raw, threadId |-> original.threadId],
              raised |-> IF send_outcome = "ok" THEN None ELSE send_outcome]

\* the outcomes of the two API requests of a reply, messages().get and
\* messages().send: the second is made only when the first succeeded
ReplyApiOutcomes == {<<"ok", "ok">>, <<"ok", "HttpError">>, <<"HttpError", "ok">>}

\* the original messages get_raw_message may return
ReplySubjects ==
    {<<"H", "i">>, <<"R", "e", ":", " ", "H", "i">>, <<"r", "e", ":", "H", "i">>}

OriginalMessages ==
    {[threadId |-> "thread_0",
      headers |-> <<[name |-> "To", value |-> <<"me@x">>],
                    [name |-> "Subject", value |-> <<"H", "i">>],
                    [name |-> "Message-ID", value |-> "<abc@x>"]>>]}
    \cup
    {[threadId |-> "thread_1",
      headers |-> <<[name |-> "From", value |-> <<"a@x">>],
                    [name |-> "To", value |-> <<"me@x">>],
                    [name |-> "Cc", value |-> <<"c@x">>],
                    [name |-> "Subject", value |-> s]>> \o mid \o refs] :
        s \in ReplySubjects,
        mid \in {<<>>, <<[name |-> "Message-ID", value |-> "<abc@x>"]>>,
                 <<[name |-> "Message-Id", value |-> "<abc@x>"]>>},
        refs \in {<<>>, <<[name |-> "References", value |-> <<"<r1@x>">>]>>}}

\* reply bodies: one line, and two paragraphs separated by CRLF CRLF
ReplyBodies ==
    {<<Text("This is my reply")>>,
     <<Text("Thanks."), Sep(CRLF), Sep(CRLF), Text("Bye")>>}

\* html_body: None, or a document
ReplyHtmlBodies == {<<>>, <<Text("<p>This is my reply</p>")>>}

\* body, html_body and attachments of the replies callers send
ReplyContents ==
    {[body |-> b, html_body |-> <<>>, attachments |-> <<>>] : b \in ReplyBodies}
    \cup {[body |-> <<Text("This is my reply")>>, html_body |-> h, attachments |-> a] :
            h \in ReplyHtmlBodies, a \in AttachmentLists}

\* a caller replies to a message
reply_to_message(original, body, html_body, reply_all, attachments, get_outcome, send_outcome) ==
    /\ call' = [op |-> "GmailClient.reply_to_message",
                original |-> original, body |-> body, html_body |-> html_body,
                reply_all |-> reply_all, attachments |-> attachments,
                reply |-> reply_to_message_result(original, body, html_body, reply_all,
                                                  attachments, get_outcome, send_outcome)]
    /\ UNCHANGED <<manager_vars, auth_vars, service, api_call, threads, email_manager>>

-----------------------------------------------------------------------------
(* GmailClient._decode_msg *)

\* A text is a sequence of code points, a bytes object a sequence of 0..255,
\* base64 text a sequence of alphabet positions 0..63 and Pad for '='.
Pad == 64

\* the longest padding a base64 text ends with
MaxPadding == 2

\* chr(cp).encode('utf-8')
utf8_bytes(cp) ==
    IF cp < 128 THEN <<cp>>
    ELSE IF cp < 2048 THEN <<192 + (cp \div 64), 128 + (cp % 64)>>
    ELSE IF cp < 65536
         THEN <<224 + (cp \div 4096), 128 + ((cp \div 64) % 64), 128 + (cp % 64)>>
         ELSE <<240 + (cp \div 262144), 128 + ((cp \div 4096) % 64),
                128 + ((cp \div 64) % 64), 128 + (cp % 64)>>

\* text.encode('utf-8')
RECURSIVE encode_utf8(_)
encode_utf8(text) ==
    IF text = <<>> THEN <<>> ELSE utf8_bytes(Head(text)) \o encode_utf8(Tail(text))

\* base64 encoding of bytes: three bytes give four characters, and the last
\* group is padded with '='
RECURSIVE b2a_base64(_)
b2a_base64(bytes) ==
    IF bytes = <<>> THEN <<>>
    ELSE IF Len(bytes) = 1
         THEN <<(bytes[1] \div 4), (bytes[1] % 4) * 16, Pad, Pad>>
    ELSE IF Len(bytes) = 2
         THEN <<(bytes[1] \div 4), (bytes[1] % 4) * 16 + (bytes[2] \div 16),
                (bytes[2] % 16) * 4, Pad>>
    ELSE <<(bytes[1] \div 4), (bytes[1] % 4) * 16 + (bytes[2] \div 16),
           (bytes[2] % 16) * 4 + (bytes[3] \div 64), (bytes[3] % 64)>>
            \o b2a_base64(SubSeq(bytes, 4, Len(bytes)))

\* the test helper: base64.urlsafe_b64encode(text.encode('utf-8')).decode('utf-8')
encode_base64(text) == b2a_base64(encode_utf8(text))

\* data with up to n of its trailing '=' removed
RECURSIVE Unpadded(_, _)
Unpadded(data, n) ==
    IF n > 0 /\ data # <<>> /\ data[Len(data)] = Pad
    THEN Unpadded(SubSeq(data, 1, Len(data) - 1), n - 1)
    ELSE data

\* base64.urlsafe_b64decode(data): the decoder reads character by character,
\* stops at sufficient padding, and raises when the characters read do not
\* end a group (ok = FALSE)
RECURSIVE a2b_base64_from(_, _, _, _, _)
a2b_base64_from(data, quad_pos, leftchar, pads, out) ==
    IF data = <<>>
    THEN IF quad_pos # 0 THEN [ok |-> FALSE, bytes |-> <<>>]
                         ELSE [ok |-> TRUE, bytes |-> out]
    ELSE LET ch == Head(data)
             rest == Tail(data)
         IN  IF ch = Pad
             THEN IF quad_pos >= 2 /\ quad_pos + pads + 1 >= 4
                  THEN [ok |-> TRUE, bytes |-> out]
                  ELSE a2b_base64_from(rest, quad_pos, leftchar,
                                       IF quad_pos >= 2 THEN pads + 1 ELSE pads, out)
             ELSE CASE quad_pos = 0 -> a2b_base64_from(rest, 1, ch, 0, out)
                    [] quad_pos = 1 ->
                        a2b_base64_from(rest, 2, (ch % 16), 0,
                                        Append(out, leftchar * 4 + (ch \div 16)))
                    [] quad_pos = 2 ->
                        a2b_base64_from(rest, 3, (ch % 4), 0,
                                        Append(out, leftchar * 16 + (ch \div 4)))
                    [] OTHER ->
                        a2b_base64_from(rest, 0, 0, 0, Append(out, leftchar * 64 + ch))

a2b_base64(data) == a2b_base64_from(data, 0, 0, 0, <<>>)

\* hexadecimal digits as bytes
IsHex(b) == b \in (48..57) \cup (65..70) \cup (97..102)
HexVal(b) == IF b <= 57 THEN b - 48 ELSE IF b <= 70 THEN b - 55 ELSE b - 87

\* bytes after the end of the current line
RECURSIVE AfterLine(_)
AfterLine(bytes) ==
    IF bytes = <<>> THEN <<>>
    ELSE IF Head(bytes) = 10 THEN Tail(bytes) ELSE AfterLine(Tail(bytes))

\* quopri.decodestring(bytes): '=' (61) starts an escape
RECURSIVE decodestring(_)
decodestring(bytes) ==
    IF bytes = <<>> THEN <<>>
    ELSE IF bytes[1] # 61 THEN <<bytes[1]>> \o decodestring(Tail(bytes))
    ELSE IF Len(bytes) = 1 THEN <<>>
    ELSE IF bytes[2] \in {10, 13} THEN decodestring(AfterLine(Tail(bytes)))
    ELSE IF bytes[2] = 61 THEN <<61>> \o decodestring(SubSeq(bytes, 3, Len(bytes)))
    ELSE IF Len(bytes) >= 3 /\ IsHex(bytes[2]) /\ IsHex(bytes[3])
         THEN <<HexVal(bytes[2]) * 16 + HexVal(bytes[3])>>
                \o decodestring(SubSeq(bytes, 4, Len(bytes)))
         ELSE <<61>> \o decodestring(Tail(bytes))

\* bytes.decode('utf-8'): ok = FALSE is UnicodeDecodeError
RECURSIVE decode_utf8(_)
decode_utf8(bytes) ==
    IF bytes = <<>> THEN [ok |-> TRUE, text |-> <<>>]
    ELSE LET b == bytes[1]
             n == Len(bytes)
             width == IF b < 128 THEN 1
                      ELSE IF b \in 194..223 THEN 2
                      ELSE IF b \in 224..239 THEN 3
                      ELSE IF b \in 240..244 THEN 4 ELSE 0
             valid == /\ width # 0
                      /\ n >= width
                      /\ \A k \in 2..width : bytes[k] \in 128..191
                      /\ b = 224 => bytes[2] >= 160
                      /\ b = 237 => bytes[2] < 160
                      /\ b = 240 => bytes[2] >= 144
                      /\ b = 244 => bytes[2] < 144
             cp == CASE width = 1 -> b
                     [] width = 2 -> (b - 192) * 64 + (bytes[2] - 128)
                     [] width = 3 -> (b - 224) * 4096 + (bytes[2] - 128) * 64
                                        + (bytes[3] - 128)
                     [] OTHER -> (b - 240) * 262144 + (bytes[2] - 128) * 4096
                                        + (bytes[3] - 128) * 64 + (bytes[4] - 128)
         IN  IF ~valid THEN [ok |-> FALSE, text |-> <<>>]
             ELSE LET rest == decode_utf8(SubSeq(bytes, width + 1, n))
                  IN  IF rest.ok THEN [ok |-> TRUE, text |-> <<cp>> \o rest.text]
                      ELSE [ok |-> FALSE, text |-> <<>>]

\* bytes.decode('utf-8-sig'): a leading byte order mark is dropped
decode_utf8_sig(bytes) ==
    decode_utf8(IF startswith(bytes, <<239, 187, 191>>)
                THEN SubSeq(bytes, 4, Len(bytes)) ELSE bytes)

\* bytes.decode('iso-8859-1'): every byte is the code point of its value
decode_latin1(bytes) == [i \in 1..Len(bytes) |-> bytes[i]]

\* what _decode_msg returns: a text, or the text that reports the failure
Decoded(text) == [failed |-> FALSE, text |-> text]
FailedToDecode == [failed |-> TRUE, text |-> <<>>]

\* _decode_msg without the padding fix
_decode_msg_NoPaddingFix(data, encoding) ==
    IF data = <<>> THEN Decoded(<<>>)
    ELSE LET b64 == a2b_base64(data)
         IN  IF ~b64.ok THEN FailedToDecode
             ELSE LET decoded_bytes == IF encoding = "quoted-printable"
                                       THEN decodestring(b64.bytes) ELSE b64.bytes
                  IN  IF decode_utf8(decoded_bytes).ok
                      THEN Decoded(decode_utf8(decoded_bytes).text)
                      ELSE IF decode_utf8_sig(decoded_bytes).ok
                      THEN Decoded(decode_utf8_sig(decoded_bytes).text)
                      ELSE Decoded(decode_latin1(decoded_bytes))

\* GmailClient._decode_msg. The charsets after iso-8859-1 and the
\* errors='replace' fallbacks are never reached: iso-8859-1 decodes every
\* bytes object.
_decode_msg(data, encoding) ==
    IF data = <<>> THEN Decoded(<<>>)
    ELSE LET missing_padding == Len(data) % 4
             padded == IF missing_padding # 0
                       THEN data \o [i \in 1..(4 - missing_padding) |-> Pad]
                       ELSE data
             b64 == a2b_base64(padded)
         IN  IF ~b64.ok THEN FailedToDecode
             ELSE LET decoded_bytes == IF encoding = "quoted-printable"
                                       THEN decodestring(b64.bytes) ELSE b64.bytes
                  IN  IF decode_utf8(decoded_bytes).ok
                      THEN Decoded(decode_utf8(decoded_bytes).text)
                      ELSE IF decode_utf8_sig(decoded_bytes).ok
                      THEN Decoded(decode_utf8_sig(decoded_bytes).text)
                      ELSE Decoded(decode_latin1(decoded_bytes))

\* the code points of the texts: 'A', '=', U+00E9, U+20AC, U+1F600 (one to
\* four bytes in UTF-8)
CodePoints == {65, 61, 233, 8364, 128512}

MaxTextLen == 2

Texts == UNION {[1..n -> CodePoints] : n \in 0..MaxTextLen}

\* the transfer-encoding hints _extract_body passes
EncodingHints == {None, "quoted-printable"}

\* a message body is decoded: the data is the base64url encoding of text with
\* up to strip padding characters left out
decode_msg(text, strip, encoding) ==
    LET data == Unpadded(encode_base64(text), strip)
    IN  /\ call' = [op |-> "GmailClient._decode_msg", text |-> text, data |-> data,
                    encoding |-> encoding, decoded |-> _decode_msg(data, encoding)]
        /\ UNCHANGED <<manager_vars, auth_vars, service, api_call, threads, email_manager>>

-----------------------------------------------------------------------------
(* GmailClient: what each operation does with the outcome of its API request *)

\* the status of the HttpError that tells the history id is too old
NotFound == 404

\* the statuses the API answers a failed request with
HttpStatuses == {400, 403, NotFound, 500}

\* the outcome of .execute(): the response, an HttpError with a status, or
\* an error raised below the API (status 0)
ApiOutcome(kind, status) == [kind |-> kind, status |-> status]
ApiOk == ApiOutcome("ok", 0)
HttpError(status) == ApiOutcome("HttpError", status)
ApiOutcomes ==
    {ApiOk, ApiOutcome("TransportError", 0)} \cup {HttpError(n) : n \in HttpStatuses}

\* the operations that list: resp.get(<key>, []) of one list request
ListingOps ==
    {"list_messages", "list_drafts", "list_labels", "list_threads", "list_unread"}

\* the operations on one entity, each a try of its requests whose
\* except HttpError logs and raises
EntityOps ==
    {"get_raw_message", "get_attachment", "send_email", "reply_to_message",
     "create_draft", "update_draft", "send_draft", "delete_draft", "get_draft",
     "mark_as_read", "mark_as_unread", "trash_message", "untrash_message",
     "delete_message", "add_labels", "remove_labels", "create_label", "update_label",
     "delete_label", "get_profile", "get_thread", "modify_thread", "trash_thread",
     "delete_thread", "send_message"}

\* the responses of a list request: the entries, and resultSizeEstimate when
\* the response carries it (has_estimate)
ListResponse(entries, has_estimate) ==
    [entries |-> entries, has_estimate |-> has_estimate, estimate |-> Len(entries)]

\* what a GmailClient operation gives its caller: a list, a number, a
\* response object, None, or the exception that leaves it
GmailResult(shape, items, number, raised) ==
    [shape |-> shape, items |-> items, number |-> number, raised |-> raised]
GmailList(items) == GmailResult("list", items, 0, ApiOk)
GmailNumber(n) == GmailResult("int", <<>>, n, ApiOk)
GmailObject == GmailResult("object", <<>>, 0, ApiOk)
GmailNone == GmailResult("None", <<>>, 0, ApiOk)
GmailRaised(outcome) == GmailResult("raised", <<>>, 0, outcome)

\* get_history that answers every HttpError with the resync sentinel
get_history_result_AnyStatus(outcome) ==
    IF outcome.kind = "ok" THEN GmailObject
    ELSE IF outcome.kind = "HttpError" THEN GmailNone
    ELSE GmailRaised(outcome)

\* GmailClient.get_history
get_history_result(outcome) ==
    IF outcome.kind = "ok" THEN GmailObject
    ELSE IF outcome.kind = "HttpError"
         THEN IF outcome.status = NotFound THEN GmailNone ELSE GmailRaised(outcome)
         ELSE GmailRaised(outcome)

\* GmailClient in which list_drafts lets the HttpError through
GmailClient_call_DraftsRaise(op, outcome, response) ==
    CASE op \in ListingOps ->
            IF outcome.kind = "ok" THEN GmailList(response.entries)
            ELSE IF outcome.kind = "HttpError" /\ op # "list_drafts" THEN GmailList(<<>>)
            ELSE GmailRaised(outcome)
      [] op = "count_unread" ->
            IF outcome.kind = "ok"
            THEN GmailNumber(IF response.has_estimate THEN response.estimate ELSE 0)
            ELSE IF outcome.kind = "HttpError" THEN GmailNumber(0)
            ELSE GmailRaised(outcome)
      [] op = "get_history" -> get_history_result(outcome)
      [] OTHER ->
            IF outcome.kind = "ok" THEN GmailObject ELSE GmailRaised(outcome)

\* an operation of GmailClient that makes its requests in one try: the
\* listing operations and count_unread catch HttpError and return [] or 0,
\* the operations on one entity log and raise it; any other exception
\* leaves every operation
GmailClient_call(op, outcome, response) ==
    CASE op \in ListingOps ->
            IF outcome.kind = "ok" THEN GmailList(response.entries)
            ELSE IF outcome.kind = "HttpError" THEN GmailList(<<>>)
            ELSE GmailRaised(outcome)
      [] op = "count_unread" ->
            IF outcome.kind = "ok"
            THEN GmailNumber(IF response.has_estimate THEN response.estimate ELSE 0)
            ELSE IF outcome.kind = "HttpError" THEN GmailNumber(0)
            ELSE GmailRaised(outcome)
      [] op = "get_history" -> get_history_result(outcome)
      [] OTHER ->
            IF outcome.kind = "ok" THEN GmailObject ELSE GmailRaised(outcome)

\* the ids of the entries that have one
RECURSIVE Ids(_)
Ids(entries) ==
    IF entries = <<>> THEN <<>>
    ELSE (IF Head(entries) # "" THEN <<Head(entries)>> ELSE <<>>) \o Ids(Tail(entries))

\* the per-message loop of search_messages and fetch_unread: get_raw_message
\* and get_formatted_message in a try whose except Exception logs and goes on;
\* failing holds the ids whose fetch or formatting raises
RECURSIVE FetchEach(_, _)
FetchEach(ids, failing) ==
    IF ids = <<>> THEN <<>>
    ELSE (IF Head(ids) \in failing THEN <<>> ELSE <<Head(ids)>>)
            \o FetchEach(Tail(ids), failing)

\* GmailClient.fetch_unread: list_unread, then every entry that has an id
fetch_unread_result(outcome, response, failing) ==
    LET unread_msgs == GmailClient_call("list_unread", outcome, response)
    IN  IF unread_msgs.shape = "raised" THEN unread_msgs
        ELSE GmailList(FetchEach(Ids(unread_msgs.items), failing))

\* GmailClient.search_messages: list_messages, then every entry; msg['id'] of
\* an entry without an id raises KeyError, also in the handler that logs it
search_messages_result(outcome, response, failing) ==
    LET msg_ids == GmailClient_call("list_messages", outcome, response)
    IN  IF msg_ids.shape = "raised" THEN msg_ids
        ELSE IF \E i \in 1..Len(msg_ids.items) :
                    /\ msg_ids.items[i] = ""
                    /\ \A j \in 1..(i - 1) : msg_ids.items[j] # ""
             THEN GmailRaised(ApiOutcome("KeyError", 0))
             ELSE GmailList(FetchEach(msg_ids.items, failing))

\* the message ids of the mailbox, and the responses of a list request
MessageIds == {"m1", "m2", "m3"}

ListResponses ==
    {ListResponse(<<>>, FALSE), ListResponse(<<"m1", "m2", "m3">>, TRUE),
     ListResponse(<<"m3", "", "m1">>, TRUE)}

\* a caller calls an operation that makes its requests in one try
gmail_call(op, outcome, response) ==
    /\ call' = [op |-> "GmailClient.call", method |-> op, outcome |-> outcome,
                response |-> response, failing |-> {},
                result |-> GmailClient_call(op, outcome, response)]
    /\ UNCHANGED <<manager_vars, auth_vars, service, api_call, threads, email_manager>>

\* a caller searches, or fetches the unread messages
gmail_fetch(op, outcome, response, failing) ==
    /\ call' = [op |-> "GmailClient.call", method |-> op, outcome |-> outcome,
                response |-> response, failing |-> failing,
                result |-> IF op = "search_messages"
                           THEN search_messages_result(outcome, response, failing)
                           ELSE fetch_unread_result(outcome, response, failing)]
    /\ UNCHANGED <<manager_vars, auth_vars, service, api_call, threads, email_manager>>

-----------------------------------------------------------------------------
(* delete_message and delete_draft through EmailManager, EmailService and the adapter *)

\* the permanent argument of delete_message: left out, False or True; every
\* layer declares permanent: bool = False
PermanentArgs == {"omitted", "False", "True"}
Permanent(arg) == arg = "True"

\* the outcome of get_default_account / get_email_service in EmailManager, and
\* of the email_client property in EmailService
ResolveOutcomes == {"ok", "ValueError"}
ClientOutcomes == {"ok", "TypeError"}

\* what a layer returns (the adapter a bool, the others a dict), with the
\* requests that reached the provider
LayerResult(requests, success, error, layer) ==
    [requests |-> requests, success |-> success, error |-> error, layer |-> layer]

\* GmailClientAdapter.delete_message
GmailClientAdapter_delete_message(permanent, outcome) ==
    LayerResult(<<IF permanent THEN "messages.delete" ELSE "messages.trash">>,
                outcome = "ok", "", "adapter")

\* EmailService.delete_message that always asks for the permanent delete
EmailService_delete_message_AlwaysPermanent(permanent, client_outcome, outcome) ==
    IF client_outcome # "ok" THEN LayerResult(<<>>, FALSE, client_outcome, "EmailService")
    ELSE LET deleted == GmailClientAdapter_delete_message(TRUE, outcome)
         IN  LayerResult(deleted.requests, deleted.success, "", "EmailService")

\* EmailService.delete_message
EmailService_delete_message(permanent, client_outcome, outcome) ==
    IF client_outcome # "ok" THEN LayerResult(<<>>, FALSE, client_outcome, "EmailService")
    ELSE LET deleted == GmailClientAdapter_delete_message(permanent, outcome)
         IN  LayerResult(deleted.requests, deleted.success, "", "EmailService")

\* EmailManager.delete_message
EmailManager_delete_message(resolve_outcome, permanent, client_outcome, outcome) ==
    IF resolve_outcome # "ok" THEN LayerResult(<<>>, FALSE, resolve_outcome, "EmailManager")
    ELSE LET result == EmailService_delete_message(permanent, client_outcome, outcome)
         IN  LayerResult(result.requests, result.success, result.error, "EmailManager")

\* a caller deletes a message through one of the layers
delete_message(layer, permanent_arg, resolve_outcome, client_outcome, outcome) ==
    /\ layer = "adapter" => (resolve_outcome = "ok" /\ client_outcome = "ok")
    /\ layer = "EmailService" => resolve_outcome = "ok"
    /\ call' = [op |-> "Layers.delete_message", layer |-> layer,
                permanent_arg |-> permanent_arg, resolve_outcome |-> resolve_outcome,
                client_outcome |-> client_outcome, outcome |-> outcome,
                result |->
                    CASE layer = "adapter" ->
                            GmailClientAdapter_delete_message(Permanent(permanent_arg), outcome)
                      [] layer = "EmailService" ->
                            EmailService_delete_message(Permanent(permanent_arg),
                                                        client_outcome, outcome)
                      [] OTHER ->
                            EmailManager_delete_message(resolve_outcome,
                                Permanent(permanent_arg), client_outcome, outcome)]
    /\ UNCHANGED <<manager_vars, auth_vars, service, api_call, threads, email_manager>>

\* GmailClientAdapter.delete_draft
GmailClientAdapter_delete_draft(outcome) ==
    LayerResult(<<"drafts.delete">>, outcome = "ok", "", "adapter")

\* EmailManager.delete_draft: the value email_client.delete_draft returns is
\* not looked at
EmailManager_delete_draft(resolve_outcome, client_outcome, has_delete_draft, outcome) ==
    IF resolve_outcome # "ok" THEN LayerResult(<<>>, FALSE, resolve_outcome, "EmailManager")
    ELSE IF client_outcome # "ok"
         THEN LayerResult(<<>>, FALSE, client_outcome, "EmailManager")
    ELSE IF ~has_delete_draft
         THEN LayerResult(<<>>, FALSE, "Delete draft not supported", "EmailManager")
    ELSE LET deleted == GmailClientAdapter_delete_draft(outcome)
         IN  LayerResult(deleted.requests, TRUE, "", "EmailManager")

\* a caller deletes a draft through EmailManager
delete_draft(resolve_outcome, client_outcome, has_delete_draft, outcome) ==
    /\ call' = [op |-> "EmailManager.delete_draft", resolve_outcome |-> resolve_outcome,
                client_outcome |-> client_outcome, has_delete_draft |-> has_delete_draft,
                outcome |-> outcome,
                result |-> EmailManager_delete_draft(resolve_outcome, client_outcome,
                                                     has_delete_draft, outcome)]
    /\ UNCHANGED <<manager_vars, auth_vars, service, api_call, threads, email_manager>>

-----------------------------------------------------------------------------
(* GmailClientAdapter: the standardized messages *)

\* the raw messages get_raw_message returns: labelIds with or without UNREAD,
\* or no labelIds at all
LabelSets == {{}, {"INBOX"}, {"INBOX", "UNREAD"}}

RawMessages == {[id |-> i, labelIds |-> l] : i \in {"m1", "m2"}, l \in LabelSets}

\* the messages one request of the adapter fetches: up to two distinct ones
FetchedMessages ==
    {<<>>} \cup {<<m>> : m \in RawMessages}
        \cup {<<m, n>> : m \in {r \in RawMessages : r.id = "m1"},
                         n \in {r \in RawMessages : r.id = "m2"}}

\* GmailClient.get_formatted_message: the fields the adapter reads
get_formatted_message(raw_msg) ==
    [id |-> raw_msg.id, labelIds |-> raw_msg.labelIds]

\* msg.get('is_read', True)
GetIsRead(msg) == IF "is_read" \in DOMAIN msg THEN msg.is_read ELSE TRUE

\* the standardized message of an adapter operation
StandardizedMessage(method, formatted_message) ==
    [id |-> formatted_message.id,
     is_read |-> CASE method = "get_message" -> "UNREAD" \notin formatted_message.labelIds
                   [] method = "search_messages" -> GetIsRead(formatted_message)
                   [] OTHER -> FALSE,
     formatted_message |-> formatted_message]

\* GmailClientAdapter.get_message, search_messages and get_unread_messages:
\* the standardized messages returned, or the exception raised
GmailClientAdapter_messages(method, fetched, outcome) ==
    IF outcome # "ok"
    THEN [raised |-> IF method = "get_message" THEN outcome ELSE "", messages |-> <<>>]
    ELSE [raised |-> "",
          messages |-> [i \in 1..Len(fetched) |->
                            StandardizedMessage(method, get_formatted_message(fetched[i]))]]

\* a caller gets one message, searches, or gets the unread messages;
\* fetch_unread lists with 'is:unread', so its messages carry UNREAD
adapter_messages(method, fetched, outcome) ==
    /\ method = "get_message" => Len(fetched) = 1
    /\ method = "get_unread_messages" =>
            \A i \in 1..Len(fetched) : "UNREAD" \in fetched[i].labelIds
    /\ call' = [op |-> "GmailClientAdapter.messages", method |-> method,
                fetched |-> fetched, outcome |-> outcome,
                result |-> GmailClientAdapter_messages(method, fetched, outcome)]
    /\ UNCHANGED <<manager_vars, auth_vars, service, api_call, threads, email_manager>>

-----------------------------------------------------------------------------
(* Inputs of the manager calls *)

\* provider tag, credentials path and token path of the accounts callers add
ProviderSetups ==
    { <<"gmail", CredPath, TokenPath>>,
      <<"Mock", CredPath, TokenPathWork>> }

NewAccountConfigs ==
    { EmailAccountConfig(n, p[1], "", p[2], p[3], e, d) :
        n \in AccountNames, p \in ProviderSetups, e \in BOOLEAN, d \in BOOLEAN }

\* the updates dictionaries callers pass to update_account
UpdateInputs ==
    { [default_account |-> TRUE], [default_account |-> FALSE],
      [enabled |-> TRUE], [enabled |-> FALSE],
      [nickname |-> "x"] }

\* classes handed to register_provider: a BaseEmailClient subclass, and one that is not
ProviderClasses == {"MockClient", "object"}

issubclass_BaseEmailClient(client_class) ==
    client_class \in {"GmailClientAdapter", "MockClient"}

\* email_accounts.json as a previous run left it
SavedFile ==
    JsonFile(AccountsToJson(
        << [key |-> "work",
            config |-> EmailAccountConfig("work", "Mock", "", CredPath, TokenPathWork,
                                          TRUE, TRUE)],
           [key |-> "default",
            config |-> EmailAccountConfig("default", "gmail", "", CredPath, TokenPath,
                                          FALSE, FALSE)] >>))

InitialFiles == {Missing, SavedFile}

-----------------------------------------------------------------------------
(* EmailAccountManager *)

\* op, name: the call and its account; result: the value returned or the exception
\* raised; id: the client object returned (create, get) or removed from the cache
\* (update, delete, remove), 0 for none; was_default: delete_account_static's local
Ret(op, name, result, id) ==
    [op |-> op, name |-> name, result |-> result, id |-> id, was_default |-> FALSE]

\* the client object cached for a name, 0 for none
CachedId(cache, name) == IF name \in DOMAIN cache THEN cache[name].id ELSE 0

BoolStr(b) == IF b THEN "True" ELSE "False"

NoClients == [n \in {} |-> 0]

\* del self._email_clients[account_name]
CacheDel(cache, name) == [n \in (DOMAIN cache) \ {name} |-> cache[n]]

CachedIds(cache, names) == {cache[n].id : n \in (DOMAIN cache) \cap names}

\* remove_email_client that leaves the entry in place
remove_email_client_cache_Keep(cache, account_name) == cache

\* remove_email_client: the cache afterwards
remove_email_client_cache(cache, account_name) ==
    IF account_name \in DOMAIN cache THEN CacheDel(cache, account_name) ELSE cache

\* EmailAccountManager.__init__
Init ==
    /\ accounts_file \in InitialFiles
    /\ account_configs = load_accounts_from_file(accounts_file)
    /\ email_clients = NoClients
    /\ available_providers = [k \in {"gmail"} |-> "GmailClientAdapter"]
    /\ next_client_id = 1
    /\ evicted = {}
    /\ ret = Ret("__init__", None, None, 0)
    /\ AuthIdle
    /\ GmailIdle
    /\ ThreadsIdle
    /\ EmailManagerNew

register_provider(name, client_class) ==
    /\ IF issubclass_BaseEmailClient(client_class)
       THEN /\ available_providers' =
                    [k \in (DOMAIN available_providers) \cup {Lower(name)} |->
                        IF k = Lower(name) THEN client_class ELSE available_providers[k]]
            /\ ret' = Ret("register_provider", name, None, 0)
       ELSE /\ available_providers' = available_providers
            /\ ret' = Ret("register_provider", name, "TypeError", 0)
    /\ UNCHANGED <<account_configs, email_clients, accounts_file, next_client_id, evicted, auth_vars, gmail_vars, threads, email_manager>>

\* create_email_client without the cache lookup: every call constructs
create_email_client_result_NoLookup(cache, accounts, providers, fresh_id, account_name, outcome) ==
    IF DictHas(accounts, account_name)
       /\ DictGet(accounts, account_name).enabled
       /\ Lower(DictGet(accounts, account_name).provider) \in DOMAIN providers
       /\ ClientClassCall(providers[Lower(DictGet(accounts, account_name).provider)],
                          EmailConfig(DictGet(accounts, account_name)), outcome) = "ok"
    THEN [result |-> "client",
          client |-> [id |-> fresh_id,
                      config |-> EmailConfig(DictGet(accounts, account_name))],
          built |-> TRUE]
    ELSE [result |-> "ValueError", client |-> [id |-> 0], built |-> FALSE]

\* What create_email_client does in the current state: the value returned or the
\* exception raised, and the client object constructed (if any).
create_email_client_result(cache, accounts, providers, fresh_id, account_name, outcome) ==
    IF account_name \in DOMAIN cache
    THEN [result |-> "client", client |-> cache[account_name], built |-> FALSE]
    ELSE LET raise(e) == [result |-> e, client |-> [id |-> 0], built |-> FALSE]
         IN
         IF ~DictHas(accounts, account_name)
         THEN raise("ValueError: Email account not configured")
         ELSE LET account_config == DictGet(accounts, account_name)
                  provider == Lower(account_config.provider)
              IN
              IF ~account_config.enabled
              THEN raise("ValueError: Email account is disabled")
              ELSE IF provider \notin DOMAIN providers
              THEN raise("ValueError: Unsupported email provider")
              ELSE LET email_config == EmailConfig(account_config)
                       made == ClientClassCall(providers[provider], email_config, outcome)
                   IN  IF made = "ok"
                       THEN [result |-> "client",
                             client |-> [id |-> fresh_id, config |-> email_config],
                             built |-> TRUE]
                       ELSE raise(made)

create_email_client(account_name, outcome) ==
    LET r == create_email_client_result(email_clients, account_configs,
                                        available_providers, next_client_id,
                                        account_name, outcome)
    IN  /\ r.built => next_client_id <= MaxClients
        /\ email_clients' = IF r.built
                            THEN (account_name :> r.client) @@ email_clients
                            ELSE email_clients
        /\ next_client_id' = IF r.built THEN next_client_id + 1 ELSE next_client_id
        /\ ret' = Ret("create_email_client", account_name, r.result, r.client.id)
        /\ UNCHANGED <<account_configs, available_providers, accounts_file, evicted, auth_vars, gmail_vars, threads, email_manager>>

\* What get_email_client returns or raises in the current state
get_email_client_result(cache, account_name) ==
    IF account_name \notin DOMAIN cache
    THEN [result |-> "ValueError: Email client not found", id |-> 0]
    ELSE [result |-> "client", id |-> cache[account_name].id]

get_email_client(account_name) ==
    LET r == get_email_client_result(email_clients, account_name)
    IN  /\ ret' = Ret("get_email_client", account_name, r.result, r.id)
        /\ UNCHANGED <<account_configs, email_clients, available_providers,
                       accounts_file, next_client_id, evicted, auth_vars, gmail_vars, threads, email_manager>>

remove_email_client(account_name) ==
    /\ email_clients' = remove_email_client_cache(email_clients, account_name)
    /\ evicted' = evicted \cup CachedIds(email_clients, {account_name})
    /\ ret' = Ret("remove_email_client", account_name, None,
                  CachedId(email_clients, account_name))
    /\ UNCHANGED <<account_configs, available_providers, accounts_file, next_client_id, auth_vars, gmail_vars, threads, email_manager>>

clear_all_clients ==
    /\ email_clients' = NoClients
    /\ evicted' = evicted \cup CachedIds(email_clients, DOMAIN email_clients)
    /\ ret' = Ret("clear_all_clients", None, None, 0)
    /\ UNCHANGED <<account_configs, available_providers, accounts_file, next_client_id, auth_vars, gmail_vars, threads, email_manager>>

\* add_account: the cache afterwards (the method does not touch it)
add_account_cache(cache, account_name) == cache

add_account(account_config, outcome) ==
    LET saved == save_accounts_to_file(
                     create_account_static(account_configs, account_config),
                     accounts_file, outcome)
    IN  /\ account_configs' = create_account_static(account_configs, account_config)
        /\ accounts_file' = saved.file
        /\ email_clients' = add_account_cache(email_clients, account_config.name)
        /\ evicted' = evicted \cup (CachedIds(email_clients, DOMAIN email_clients)
                                      \ CachedIds(email_clients', DOMAIN email_clients'))
        /\ ret' = Ret("add_account", account_config.name, BoolStr(saved.success), 0)
        /\ UNCHANGED <<available_providers, next_client_id, auth_vars, gmail_vars, threads, email_manager>>

delete_account(account_name, outcome) ==
    IF ~DictHas(account_configs, account_name)
    THEN /\ ret' = Ret("delete_account", account_name, "False: not found", 0)
         /\ UNCHANGED <<account_configs, email_clients, available_providers,
                        accounts_file, next_client_id, evicted, auth_vars, gmail_vars, threads, email_manager>>
    ELSE LET saved == save_accounts_to_file(
                          delete_account_static(account_configs, account_name),
                          accounts_file, outcome)
         IN  /\ email_clients' = remove_email_client_cache(email_clients, account_name)
             /\ evicted' = evicted \cup (CachedIds(email_clients, DOMAIN email_clients)
                                      \ CachedIds(email_clients', DOMAIN email_clients'))
             /\ account_configs' = delete_account_static(account_configs, account_name)
             /\ accounts_file' = saved.file
             /\ ret' = [Ret("delete_account", account_name, BoolStr(saved.success),
                            CachedId(email_clients, account_name))
                        EXCEPT !.was_default =
                            DictGet(account_configs, account_name).default_account]
             /\ UNCHANGED <<available_providers, next_client_id, auth_vars, gmail_vars, threads, email_manager>>

update_account(account_name, updates, outcome) ==
    IF ~DictHas(account_configs, account_name)
    THEN /\ ret' = Ret("update_account", account_name, "False: not found", 0)
         /\ UNCHANGED <<account_configs, email_clients, available_providers,
                        accounts_file, next_client_id, evicted, auth_vars, gmail_vars, threads, email_manager>>
    ELSE LET saved == save_accounts_to_file(
                          update_account_static(account_configs, account_name, updates),
                          accounts_file, outcome)
         IN  /\ email_clients' = remove_email_client_cache(email_clients, account_name)
             /\ evicted' = evicted \cup (CachedIds(email_clients, DOMAIN email_clients)
                                      \ CachedIds(email_clients', DOMAIN email_clients'))
             /\ account_configs' =
                    update_account_static(account_configs, account_name, updates)
             /\ accounts_file' = saved.file
             /\ ret' = Ret("update_account", account_name, BoolStr(saved.success),
                           CachedId(email_clients, account_name))
             /\ UNCHANGED <<available_providers, next_client_id, auth_vars, gmail_vars, threads, email_manager>>

get_default_account_name ==
    /\ ret' = Ret("get_default_account_name", None,
                  get_default_account_name_static(account_configs), 0)
    /\ UNCHANGED <<account_configs, email_clients, available_providers,
                   accounts_file, next_client_id, evicted, auth_vars, gmail_vars, threads, email_manager>>

Next ==
    \/ \E n \in {"Mock"}, c \in ProviderClasses : register_provider(n, c)
    \/ \E n \in AccountNames, o \in ConstructorOutcomes : create_email_client(n, o)
    \/ \E n \in AccountNames : get_email_client(n)
    \/ \E n \in AccountNames : remove_email_client(n)
    \/ clear_all_clients
    \/ \E c \in NewAccountConfigs, o \in SaveSucceeds : add_account(c, o)
    \/ \E n \in AccountNames, o \in SaveSucceeds : delete_account(n, o)
    \/ \E n \in AccountNames, u \in UpdateInputs, o \in SaveSucceeds :
            update_account(n, u, o)
    \/ get_default_account_name

Spec == Init /\ [][Next]_vars

\* The runs of SpecPersist: the directory calls alone, every save outcome,
\* and accounts whose paths are partly unset.
PersistAccountConfigs ==
    { EmailAccountConfig("work", "Mock", "Work", None, TokenPathWork, TRUE, d) :
        d \in BOOLEAN }

PersistUpdateInputs ==
    { [default_account |-> TRUE], [enabled |-> FALSE],
      [google_credentials_path |-> CredPath] }

NextPersist ==
    \/ \E c \in PersistAccountConfigs, o \in SaveOutcomes : add_account(c, o)
    \/ \E n \in AccountNames, o \in SaveOutcomes : delete_account(n, o)
    \/ \E n \in AccountNames, u \in PersistUpdateInputs, o \in SaveOutcomes :
            update_account(n, u, o)


SpecPersist == Init /\ [][NextPersist]_vars

-----------------------------------------------------------------------------
(* Properties of the account directory *)

EnabledDefaults(accounts) ==
    {i \in 1..Len(accounts) :
        accounts[i].config.enabled /\ accounts[i].config.default_account}

Defaults(accounts) ==
    {i \in 1..Len(accounts) : accounts[i].config.default_account}

Enabled(accounts) ==
    {i \in 1..Len(accounts) : accounts[i].config.enabled}

\* C1: after any sequence of add_account, update_account and delete_account calls
\* on a directory that started with at most one default account, at most one
\* enabled account has default_account = true.
C1_AtMostOneEnabledDefault ==
    Cardinality(EnabledDefaults(account_configs)) <= 1

\* add_account with default_account set has just been applied to a directory of
\* two enabled accounts: the added one is the default, the other one is not.
C1_Witness ==
    /\ ret.op = "add_account"
    /\ Len(account_configs) = 2
    /\ Enabled(account_configs) = {1, 2}
    /\ DictGet(account_configs, ret.name).default_account
    /\ Cardinality(Defaults(account_configs)) = 1

\* C4: get_default_account_name returns the enabled account marked default if
\* there is one, otherwise the first enabled account in directory order, and None
\* when no account is enabled; it never returns a disabled account.
C4_DefaultResolution ==
    ret.op = "get_default_account_name" =>
        LET marked == EnabledDefaults(account_configs)
            enabled == Enabled(account_configs)
        IN  /\ marked # {} =>
                  \E i \in marked : ret.result = account_configs[i].key
            /\ (marked = {} /\ enabled # {}) =>
                  \E i \in enabled :
                      /\ ret.result = account_configs[i].key
                      /\ \A j \in enabled : i <= j
            /\ enabled = {} => ret.result = None
            /\ ret.result # None =>
                  /\ DictHas(account_configs, ret.result)
                  /\ DictGet(account_configs, ret.result).enabled

\* The fallback case: no enabled account is marked default, the first account
\* is disabled and the second, enabled one is returned.
C4_Witness ==
    /\ ret.op = "get_default_account_name"
    /\ Len(account_configs) = 2
    /\ EnabledDefaults(account_configs) = {}
    /\ Enabled(account_configs) = {2}
    /\ ret.result = account_configs[2].key

C8_PromotedIsEnabled ==
    (/\ ret.op = "delete_account"
     /\ ret.was_default
     /\ Len(account_configs) > 0)
    => account_configs[1].config.enabled

\* C9: after each add_account, update_account or delete_account call that
\* returns True, the persisted file holds exactly the in-memory directory: the
\* same account names in the same order and, for each, the same name, provider,
\* display_name, credential path, token path, enabled and default_account.
C9_PersistedEqualsMemory ==
    (ret.op \in {"add_account", "update_account", "delete_account"}
     /\ ret.result = "True")
    => /\ accounts_file.state = "json"
       /\ Len(accounts_file.data) = Len(account_configs)
       /\ \A i \in 1..Len(account_configs) :
            LET data == accounts_file.data[i].data
                config == account_configs[i].config
            IN  /\ accounts_file.data[i].key = account_configs[i].key
                /\ data.name = config.name
                /\ data.provider = config.provider
                /\ data.display_name = config.display_name
                /\ data.enabled = config.enabled
                /\ data.default_account = config.default_account
                /\ IF config.google_credentials_path = None
                   THEN data.google_credentials_path = null
                   ELSE /\ data.google_credentials_path # null
                        /\ StrPath(data.google_credentials_path)
                              = config.google_credentials_path
                /\ IF config.google_token_path = None
                   THEN data.google_token_path = null
                   ELSE /\ data.google_token_path # null
                        /\ StrPath(data.google_token_path) = config.google_token_path

\* update_account has returned True on a directory of two accounts, one of them
\* without a credentials path and one of them disabled: the file holds both.
C9_Witness ==
    /\ ret.op = "update_account"
    /\ ret.result = "True"
    /\ Len(account_configs) = 2
    /\ \E i \in 1..2 : account_configs[i].config.google_credentials_path = None
    /\ \E i \in 1..2 : ~account_configs[i].config.enabled
    /\ accounts_file.state = "json"
    /\ Len(accounts_file.data) = 2

-----------------------------------------------------------------------------
(* Properties of the client cache *)

\* create_email_client in the state after the step
CreateAfter(account_name, outcome) ==
    create_email_client_result(email_clients', account_configs', available_providers',
                               next_client_id', account_name, outcome)

\* C2: after update_account(name, ...) or delete_account(name) on an account with
\* a cached client, create_email_client(name) never returns the instance cached
\* before the call: the entry is gone, get_email_client(name) raises, after delete
\* create_email_client(name) raises too, after update it builds a new instance;
\* an entry only ever appears in the cache by create_email_client building a new
\* instance, and no create_email_client call returns an instance that was evicted.
C2_NoStaleInstanceAfterUpdateOrDelete ==
    /\ [](ret.op = "create_email_client" /\ ret.result = "client"
            => ret.id \notin evicted)
    /\ [][ /\ (/\ ret'.op \in {"update_account", "delete_account"}
               /\ ret'.name \in DOMAIN email_clients
               /\ DictHas(account_configs, ret'.name))
              => /\ ret'.name \notin DOMAIN email_clients'
                 /\ email_clients[ret'.name].id \in evicted'
                 /\ get_email_client_result(email_clients', ret'.name).result # "client"
                 /\ \A o \in ConstructorOutcomes :
                      /\ ret'.op = "delete_account"
                            => CreateAfter(ret'.name, o).result # "client"
                      /\ CreateAfter(ret'.name, o).result = "client"
                            => /\ CreateAfter(ret'.name, o).built
                               /\ CreateAfter(ret'.name, o).client.id
                                    # email_clients[ret'.name].id
           /\ \A n \in AccountNames :
                (n \notin DOMAIN email_clients /\ n \in DOMAIN email_clients')
                    => /\ ret'.op = "create_email_client"
                       /\ ret'.name = n
                       /\ email_clients'[n].id = next_client_id
                       /\ next_client_id \notin evicted ]_vars

\* update_account has just evicted the client that was cached for its account.
C2_Witness ==
    /\ ret.op = "update_account"
    /\ ret.result = "True"
    /\ ret.id # 0
    /\ ret.id \in evicted
    /\ ret.name \notin DOMAIN email_clients

\* C3: every account name in the client cache exists in the directory, is
\* enabled, and the configuration its cached client was built from equals the
\* account's current configuration.
C3_CacheMatchesDirectory ==
    \A n \in DOMAIN email_clients :
        /\ DictHas(account_configs, n)
        /\ DictGet(account_configs, n).enabled
        /\ email_clients[n].config = EmailConfig(DictGet(account_configs, n))

\* C5: create_email_client is idempotent per account: while an account's entry
\* is in the cache every call returns that instance and constructs nothing, a
\* call that finds no entry constructs at most one client and caches the one it
\* returns, and an entry keeps its instance until it is evicted.
C5_CreateIsIdempotent ==
    [][ /\ ret'.op = "create_email_client" =>
            IF ret'.name \in DOMAIN email_clients
            THEN /\ ret'.result = "client"
                 /\ ret'.id = email_clients[ret'.name].id
                 /\ email_clients' = email_clients
                 /\ next_client_id' = next_client_id
            ELSE IF ret'.result = "client"
            THEN /\ next_client_id' = next_client_id + 1
                 /\ ret'.id = next_client_id
                 /\ ret'.name \in DOMAIN email_clients'
                 /\ email_clients'[ret'.name].id = ret'.id
                 /\ \A m \in DOMAIN email_clients : email_clients'[m] = email_clients[m]
            ELSE /\ email_clients' = email_clients
                 /\ next_client_id' = next_client_id
        /\ \A n \in DOMAIN email_clients :
                n \in DOMAIN email_clients' => email_clients'[n].id = email_clients[n].id
      ]_vars

\* create_email_client has returned the first instance again after a second
\* client had been constructed: a call answered from the cache.
C5_Witness ==
    /\ ret.op = "create_email_client"
    /\ ret.result = "client"
    /\ ret.id = 1
    /\ next_client_id = 3
    /\ email_clients[ret.name].id = 1

\* C6: create_email_client(name) raises whenever name is absent from the
\* directory, whenever the account is disabled (a different error) and whenever
\* its provider has no registered implementation; it returns no client then.
C6_CreateRaisesForUnusableAccount ==
    ret.op = "create_email_client" =>
        /\ ~DictHas(account_configs, ret.name)
              => ret.result = "ValueError: Email account not configured"
        /\ (DictHas(account_configs, ret.name)
            /\ ~DictGet(account_configs, ret.name).enabled)
              => ret.result = "ValueError: Email account is disabled"
        /\ (DictHas(account_configs, ret.name)
            /\ Lower(DictGet(account_configs, ret.name).provider)
                    \notin DOMAIN available_providers)
              => ret.result # "client"


-----------------------------------------------------------------------------
(* The scope check of the token file *)

LogEvents == Events(auth_log)

\* the scopes the running (or last) _authenticate run requires
RequiredScopes == auth_log[1].scopes

\* the run found a token file whose recorded scope set differs from the
\* required scope set
MismatchRun ==
    \E i \in DOMAIN auth_log :
        /\ auth_log[i].ev = "token_file"
        /\ set(auth_log[i].scopes) # set(RequiredScopes)

\* C10 as stated: when the token file records a scope set different from the
\* required one, the token file is deleted, the credentials are cleared, and
\* the interactive consent flow runs with the full required scope list.
C10_TokenDeletedAndConsentRuns ==
    MismatchRun =>
        /\ "loaded" \notin LogEvents
        /\ pc = "validate" => ~token_file.exists /\ creds = NoCreds
        /\ pc \in {"save", "ready", "dead"} =>
                \E i \in DOMAIN auth_log :
                    auth_log[i] = EventWith("consent", RequiredScopes)

\* C10, amended: when the token file records a scope set different from the
\* required one, authentication never uses that token (it is neither loaded
\* nor refreshed, and the credentials are cleared); removal of the token file
\* is attempted, and the file is gone unless the removal failed with an OS
\* error; the run goes on to the consent step with the full required scope
\* list, which launches the consent flow if the client-secret file exists and
\* raises FileNotFoundError otherwise; a run that completes holds credentials
\* granted by that consent.
C10_ScopeMismatchForcesReauthentication ==
    MismatchRun =>
        /\ LogEvents \cap {"loaded", "refreshed", "refresh_failed"} = {}
        /\ creds.origin # "file"
        /\ pc = "validate" => creds = NoCreds
        /\ LogEvents \cap {"removed", "remove_failed"} # {}
        /\ ("removed" \in LogEvents /\ LogEvents \cap {"saved", "save_failed"} = {})
                => ~token_file.exists
        /\ \A i \in DOMAIN auth_log :
                auth_log[i].ev = "consent" => auth_log[i].scopes = RequiredScopes
        /\ (pc = "save" \/ (pc = "ready" /\ "raise" \notin LogEvents)) =>
                /\ "consent" \in LogEvents
                /\ creds.origin = "consent" /\ creds.scopes = RequiredScopes
                /\ pc = "save" => creds.valid
        /\ "raise" \in LogEvents =>
                \/ "FileNotFoundError" \in LogEvents /\ ~credentials_file
                \/ "consent" \in LogEvents /\ credentials_file

\* a run that found a token file with other scopes, removed it, and completed
\* with credentials from the consent flow
C10_Witness ==
    /\ MismatchRun
    /\ "removed" \in LogEvents
    /\ pc = "ready"
    /\ creds.origin = "consent"
    /\ token_file.exists /\ set(token_file.scopes) = set(RequiredScopes)

-----------------------------------------------------------------------------
(* The order of the steps of one authentication run *)

\* the step of _authenticate an entry of the log belongs to (0: none)
StepOf(ev) ==
    CASE ev \in {"no_token_file", "token_file", "token_file_unreadable", "loaded",
                 "scope_mismatch", "load_error"} -> 1
      [] ev \in {"refreshed", "refresh_failed"} -> 2
      [] ev \in {"consent", "FileNotFoundError"} -> 3
      [] ev \in {"saved", "save_failed"} -> 4
      [] OTHER -> 0

\* the number of entries of the log that belong to a step
StepCount(step) ==
    Cardinality({i \in DOMAIN auth_log : StepOf(auth_log[i].ev) = step})

\* the steps of the log are in the order load, refresh, consent, persist, and
\* refresh, consent and persist occur at most once
StepsInOrder ==
    /\ \A i, j \in DOMAIN auth_log :
            (i < j /\ StepOf(auth_log[i].ev) > 0 /\ StepOf(auth_log[j].ev) > 0)
                => StepOf(auth_log[i].ev) <= StepOf(auth_log[j].ev)
    /\ \A step \in 2..4 : StepCount(step) <= 1
    /\ Cardinality({i \in DOMAIN auth_log :
                        auth_log[i].ev \in {"no_token_file", "token_file",
                                            "token_file_unreadable"}}) <= 1

\* a refresh of the run failed and the next thing the run did was to raise
FailedRefreshRaised ==
    \E i \in DOMAIN auth_log :
        /\ auth_log[i].ev = "refresh_failed"
        /\ i < Len(auth_log)
        /\ auth_log[i + 1].ev = "raise"

\* the steps of every run are in order, a refresh is attempted only with
\* loaded credentials that are expired and carry a refresh token, the consent
\* step is entered only without valid credentials, and with a valid token
\* loaded neither refresh nor consent happens
StepsInOrderAndGuarded ==
    /\ []StepsInOrder
    /\ [][ /\ StepCount(2)' > StepCount(2)
                => (pc = "validate" /\ creds.present /\ creds.origin = "file"
                    /\ ~creds.valid /\ creds.expired /\ creds.refresh_token)
           /\ StepCount(3)' > StepCount(3)
                => (pc = "consent" /\ ~(creds.present /\ creds.valid))
           /\ (pc = "validate" /\ creds.present /\ creds.valid)
                => (pc' = "save" /\ auth_log' = auth_log /\ creds' = creds)
         ]_vars

\* C11: in one authentication run the steps occur at most once each and in
\* the order load, refresh, consent, persist; a refresh is attempted only with
\* loaded credentials that are expired and carry a refresh token; the consent
\* flow starts only without valid credentials; a failed refresh clears the
\* credentials and leads to the consent step, not to an error; with a valid
\* token loaded neither refresh nor consent happens.
C11_StepsInOrderAndFailedRefreshReauthenticates ==
    /\ StepsInOrderAndGuarded
    /\ []~FailedRefreshRaised
    /\ [][(StepCount(2)' > StepCount(2) /\ "refresh_failed" \in Events(auth_log'))
                => (creds' = NoCreds /\ pc' = "consent")]_vars

-----------------------------------------------------------------------------
(* API requests and the client's credentials *)

\* C12: every provider API request issued through a client goes out while the
\* client's credentials (self.creds) are valid and granted for a scope set
\* covering the required scopes, and it carries those credentials - also after
\* the token ran out during the client's lifetime and after an add_scopes call
\* that failed.
C12_ApiCallsHaveValidCredentials ==
    api_call.sent =>
        /\ api_call.client_creds.present
        /\ api_call.client_creds.valid
        /\ set(api_call.required) \subseteq set(api_call.client_creds.scopes)
        /\ api_call.creds = api_call.client_creds
        /\ OpScope(api_call.op) \in set(api_call.creds.scopes)

-----------------------------------------------------------------------------
(* The token file after a successful authentication run *)

\* the token file that holds the given credentials
FileHolding(credentials) ==
    TokenFile(TRUE, credentials.scopes, TRUE,
              Credentials(credentials.valid, credentials.expired,
                          credentials.refresh_token, credentials.scopes, "file"))

LastEvent == auth_log[Len(auth_log)].ev

\* an _authenticate run returns without an exception in this step
RunCompletes == pc = "save" /\ pc' = "ready"

\* C13 as stated: whenever an authentication run completes successfully, the
\* token file afterwards contains the current credentials; never is it missing
\* or holding older credentials.
C13_TokenFileHoldsCurrentCredentials ==
    [][RunCompletes => (creds'.valid /\ token_file' = FileHolding(creds'))]_vars

\* C13, amended: an authentication run completes successfully only through its
\* persist step, with valid credentials; the step always tries to write them,
\* and when the write succeeds the token file afterwards contains exactly the
\* current credentials; when it fails the failure is only logged, the run
\* still completes, and the file is as the failed write left it.
C13_SuccessfulRunTriesToPersist ==
    [][ /\ (pc # "ready" /\ pc' = "ready" /\ "raise" \notin Events(auth_log'))
              => RunCompletes
        /\ RunCompletes =>
              /\ creds' = creds /\ creds.valid
              /\ LastEvent' \in {"saved", "save_failed"}
              /\ LastEvent' = "saved" => token_file' = FileHolding(creds')
              /\ LastEvent' = "save_failed"
                    => token_file' \in {token_file, TokenFile(FALSE, <<>>, FALSE, NoCreds)}
      ]_vars

\* a run that got its credentials from the consent flow has written them
C13_Witness ==
    /\ pc = "ready"
    /\ LastEvent = "saved"
    /\ creds.origin = "consent"
    /\ token_file = FileHolding(creds)

-----------------------------------------------------------------------------
(* add_scopes and the required scope set *)

\* add_scopes found scopes to add and starts to re-authenticate in this step
AddScopesReauthenticates == pc = "ready" /\ pc' = "load"

\* the run add_scopes started raises in this step
AddScopesFails ==
    /\ caller.kind = "add_scopes"
    /\ "raise" \in Events(auth_log') /\ "raise" \notin Events(auth_log)

\* C14: the required scope set never shrinks below what it was at
\* construction; add_scopes whose scopes are all already required returns True
\* without deleting the token or re-authenticating; otherwise it deletes the
\* cached token and re-authenticates with the union, and when that fails it
\* returns False with the required scope set restored to its previous value.
C14_ScopesOnlyGrow ==
    [][ /\ pc # "new" =>
              \/ set(scopes) \subseteq set(scopes')
              \/ AddScopesFails /\ scopes' = caller.old_scopes
        /\ AddScopesReauthenticates =>
              /\ set(scopes') # set(scopes)
              /\ set(scopes) \subseteq set(scopes')
              /\ ~token_file'.exists
              /\ creds' = NoCreds
        /\ AddScopesFails =>
              /\ caller'.returned = "False"
              /\ scopes' = caller.old_scopes
              /\ pc' = "ready"
      ]_vars

-----------------------------------------------------------------------------
(* One token cache per account and service *)

\* C15: the client of a service reads, deletes and writes only the token
\* cache of its own (account, service) pair: constructing the client of
\* another Google service never deletes or overwrites the token persisted for
\* the Gmail client.
C15_OtherServiceLeavesTokenAlone ==
    call.op = "GoogleBaseClient.__init__" =>
        (call.before.exists => call.after = call.before)

-----------------------------------------------------------------------------
(* The adapter's operations *)

InitAdapter == Init

NextAdapter ==
    \/ \E op \in AdapterOps, o \in ProviderOutcomes : adapter_call(op, o)
    \/ \E valid, validate_recipients \in BOOLEAN, h \in HtmlBodies,
          a \in AttachmentLists, f \in FeatureSets, o \in ClientSendOutcomes :
            service_send_email(valid, validate_recipients, h, a, f, o)

SpecAdapter == InitAdapter /\ [][NextAdapter]_vars

\* C16: no adapter operation other than get_profile and get_message lets an
\* exception of the underlying client reach the caller: the dict operations
\* return {success: false, error, provider}, the bool operations False, the
\* list operations an empty list and count_unread_messages 0; get_profile and
\* get_message re-raise.
C16_AdapterConvertsExceptions ==
    (call.op \in AdapterOps /\ call.outcome \in ProviderExceptions) =>
        /\ call.op \in RaisingOps => call.result = Raised(call.outcome)
        /\ call.op \notin RaisingOps => call.result.raised = ""
        /\ call.op \in DictOps =>
                call.result.value = [shape |-> "dict", success |-> FALSE,
                                     error |-> call.outcome, provider |-> "gmail"]
        /\ call.op \in BoolOps =>
                (call.result.value.shape = "bool" /\ ~call.result.value.success)
        /\ call.op \in ListOps =>
                (call.result.value.shape = "list" /\ ~call.result.value.success)
        /\ call.op = "count_unread_messages" =>
                (call.result.value.shape = "int" /\ ~call.result.value.success)

\* delete_message was called, the underlying client raised, and the adapter
\* returned False
C16_Witness ==
    /\ call.op = "delete_message"
    /\ call.outcome = "HttpError 404"
    /\ call.result = Returned(Value("bool", FALSE, ""))

-----------------------------------------------------------------------------
(* Construction of the Gmail adapter *)

\* GmailClientAdapter(config) called directly: it raises, or goes on to
\* construct the GmailClient, whose __init__ starts to authenticate
GmailClientAdapter_new(config) ==
    LET made == GmailClientAdapter_init(config)
    IN  /\ call' = [op |-> "GmailClientAdapter.__init__", config |-> config,
                    raised |-> IF made = "ok" THEN "" ELSE made]
        /\ IF made = "ok"
           THEN /\ pc = "new"
                /\ pc' = "load"
                /\ scopes' = sorted(<<ScopeReadonly, ScopeSend>>)
                /\ caller' = [kind |-> "__init__", old_scopes |-> <<>>, returned |-> ""]
                /\ auth_log' = <<EventWith("authenticate", scopes')>>
                /\ UNCHANGED <<token_file, credentials_file, creds, threads, email_manager>>
           ELSE UNCHANGED auth_vars
        /\ UNCHANGED <<manager_vars, service, api_call, threads, email_manager>>

\* Gmail accounts with and without the two paths
ConstructAccountConfigs ==
    { EmailAccountConfig(n, "gmail", "", c, t, TRUE, TRUE) :
        n \in AccountNames, c \in {None, CredPath}, t \in {None, TokenPath} }

NextConstruct ==
    \/ \E c \in ConstructAccountConfigs : add_account(c, "ok")
    \/ \E n \in AccountNames : create_email_client(n, "ok")
    \/ \E c \in {NoEmailConfig} \cup {EmailConfig(a) : a \in ConstructAccountConfigs} :
            GmailClientAdapter_new(c)

SpecConstruct == Init /\ [][NextConstruct]_vars

\* the error GmailClientAdapter.__init__ raises for a configuration that is
\* missing or lacks a path
MissingPathError(config) ==
    IF config = NoEmailConfig
    THEN "ValueError: EmailConfig is required for Gmail client initialization"
    ELSE IF config.google_credentials_path = None
    THEN "ValueError: Google credentials path is required for Gmail client"
    ELSE "ValueError: Google token path is required for Gmail client"

LacksPath(config) ==
    config.google_credentials_path = None \/ config.google_token_path = None

\* C17: constructing a GmailClientAdapter with no configuration, or with one
\* lacking the credentials path or the token path, raises a descriptive error
\* at construction, before any credential-store activity; inside
\* create_email_client the cache gets no entry for the account.
C17_AdapterFailsFastWithoutPaths ==
    /\ (call.op = "GmailClientAdapter.__init__" /\ LacksPath(call.config)) =>
            /\ call.raised = MissingPathError(call.config)
            /\ AuthIdle
    /\ (/\ ret.op = "create_email_client"
        /\ DictHas(account_configs, ret.name)
        /\ DictGet(account_configs, ret.name).enabled
        /\ Lower(DictGet(account_configs, ret.name).provider) = "gmail"
        /\ LacksPath(DictGet(account_configs, ret.name))) =>
            /\ ret.result = MissingPathError(EmailConfig(DictGet(account_configs, ret.name)))
            /\ ret.name \notin DOMAIN email_clients
            /\ AuthIdle

\* create_email_client was called for a Gmail account that has a credentials
\* path and no token path
C17_Witness ==
    /\ ret.op = "create_email_client"
    /\ DictHas(account_configs, ret.name)
    /\ DictGet(account_configs, ret.name).google_credentials_path = CredPath
    /\ DictGet(account_configs, ret.name).google_token_path = None
    /\ ret.result = "ValueError: Google token path is required for Gmail client"
    /\ call.op = "GmailClientAdapter.__init__" /\ call.config = NoEmailConfig

-----------------------------------------------------------------------------
(* Feature gating *)

\* the call gave a field the client does not support
HtmlGated ==
    call.html_body \notin {None, ""} /\ "html_email" \notin call.features

AttachmentsGated ==
    call.attachments # <<>> /\ "attachments" \notin call.features

\* C18: send_email with html_body set against a client that does not support
\* 'html_email' still succeeds, the message being sent with the HTML content
\* dropped, and likewise attachments are dropped when 'attachments' is
\* unsupported; no error is raised or reported for the unsupported field: the
\* client is called without the field, and the result is the one the call
\* without the field gives.
C18_UnsupportedFieldsAreDropped ==
    (/\ call.op = "EmailService.send_email"
     /\ call.validate_recipients => call.valid
     /\ HtmlGated \/ AttachmentsGated) =>
        /\ call.sent.client_args.called
        /\ HtmlGated =>
                /\ call.sent.client_args.html_body = None
                /\ ~call.sent.result.features_used.html
        /\ AttachmentsGated =>
                /\ call.sent.client_args.attachments = <<>>
                /\ ~call.sent.result.features_used.attachments
        /\ ~HtmlGated => call.sent.client_args.html_body = call.html_body
        /\ ~AttachmentsGated => call.sent.client_args.attachments = call.attachments
        /\ call.outcome = "ok" =>
                (call.sent.result.success /\ call.sent.result.error = "")
        /\ call.sent.result =
                EmailService_send_email(call.valid, call.validate_recipients,
                    IF HtmlGated THEN None ELSE call.html_body,
                    IF AttachmentsGated THEN <<>> ELSE call.attachments,
                    call.features, call.outcome).result

\* an HTML body and an attachment were given to a client that supports
\* neither, and the plain message went out
C18_Witness ==
    /\ call.op = "EmailService.send_email"
    /\ call.html_body = "<p>Hello</p>" /\ call.attachments = <<"report.pdf">>
    /\ call.features = {}
    /\ call.sent.result.success
    /\ call.sent.client_args = ClientArgs(TRUE, None, <<>>)

-----------------------------------------------------------------------------
(* Reply threading *)

NextReply ==
    \E original \in OriginalMessages, c \in ReplyContents, reply_all \in BOOLEAN,
       o \in ReplyApiOutcomes :
            reply_to_message(original, c.body, c.html_body, reply_all, c.attachments,
                             o[1], o[2])

SpecReply == Init /\ [][NextReply]_vars

\* the header section of a message text: everything before the first blank line
HeaderSection(text) ==
    LET Blank == {i \in 1..(Len(text) - 1) :
                        text[i].kind = "sep" /\ text[i + 1].kind = "sep"}
    IN  IF Blank = {} THEN text
        ELSE SubSeq(text, 1, (CHOOSE i \in Blank : \A j \in Blank : i <= j))

HasHeader(text, name) ==
    \E i \in 1..Len(text) : text[i].kind = "header" /\ text[i].name = name

HasHeaderLine(text, name, value) ==
    \E i \in 1..Len(text) :
        text[i].kind = "header" /\ text[i].name = name /\ text[i].value = value

\* a reply to the sender only, to an original that has Message-ID and From
\* headers, was handed to messages().send
RepliedToSender ==
    /\ call.op = "GmailClient.reply_to_message"
    /\ ~call.reply_all
    /\ call.reply.sent
    /\ HeadersGet(call.original.headers, "message-id", None) # None

ReplyHeaders == HeaderSection(urlsafe_b64decode(call.reply.message.raw))

ExpectedSubject ==
    LET S == HeadersGet(call.original.headers, "subject", <<>>)
    IN  IF startswith(S, Re) THEN S ELSE RePrefix \o S

\* the addressing part of the reply: To is the original From, there is no Cc,
\* the subject carries 'Re: ' once, the thread id is the original's
ReplyIsAddressedToSender ==
    RepliedToSender =>
        /\ HasHeaderLine(ReplyHeaders, "To", HeadersGet(call.original.headers, "from", <<>>))
        /\ ~HasHeader(ReplyHeaders, "Cc")
        /\ HasHeaderLine(ReplyHeaders, "Subject", ExpectedSubject)
        /\ call.reply.message.threadId = call.original.threadId

\* C19: for an original message with headers Message-ID M, From F and Subject S,
\* reply_to_message with reply_all = false sends a message addressed to F with
\* no Cc, with subject 'Re: ' + S (or S unchanged when S already starts with
\* 'Re:'), carrying the original thread id, and whose header section contains
\* 'In-Reply-To: M' and 'References: ' followed by the original References
\* chain (if any) and M.
C19_ReplyCarriesThreadingHeaders ==
    /\ ReplyIsAddressedToSender
    /\ RepliedToSender =>
        LET M == HeadersGet(call.original.headers, "message-id", None)
            chain == HeadersGet(call.original.headers, "references", <<>>)
        IN  /\ HasHeaderLine(ReplyHeaders, "In-Reply-To", M)
            /\ HasHeaderLine(ReplyHeaders, "References", Append(chain, M))

-----------------------------------------------------------------------------
(* Round-trip decoding *)

NextDecode ==
    \E text \in Texts, strip \in 0..MaxPadding, encoding \in EncodingHints :
        decode_msg(text, strip, encoding)

SpecDecode == Init /\ [][NextDecode]_vars

\* C20: for every UTF-8 text t, _decode_msg applied to the base64url encoding
\* of t, with or without its trailing '=' padding and with no
\* transfer-encoding hint, returns exactly t.
C20_DecodeRoundTrip ==
    (call.op = "GmailClient._decode_msg" /\ call.encoding = None) =>
        (~call.decoded.failed /\ call.decoded.text = call.text)

\* a text of a one-byte and a three-byte character was decoded from data
\* whose two padding characters were left out
C20_Witness ==
    /\ call.op = "GmailClient._decode_msg" /\ call.encoding = None
    /\ call.text = <<65, 8364>>
    /\ call.data = Unpadded(encode_base64(call.text), MaxPadding)
    /\ call.data # encode_base64(call.text)
    /\ call.decoded = Decoded(call.text)

-----------------------------------------------------------------------------
(* Provider-client failure semantics *)

NextGmail ==
    \/ \E op \in ListingOps \cup EntityOps \cup {"count_unread", "get_history"},
          o \in ApiOutcomes, r \in ListResponses : gmail_call(op, o, r)
    \/ \E op \in {"search_messages", "fetch_unread"}, o \in ApiOutcomes,
          r \in ListResponses, failing \in SUBSET MessageIds :
            gmail_fetch(op, o, r, failing)

SpecGmail == Init /\ [][NextGmail]_vars

\* C21: get_history returns the 'full resync needed' sentinel (None) exactly
\* when the provider answers the history request with status 404; it returns
\* the provider's history response on success and re-raises the provider error
\* for every other status.
C21_HistoryResyncSentinelOn404 ==
    (call.op = "GmailClient.call" /\ call.method = "get_history") =>
        /\ call.result.shape = "None" <=> call.outcome = HttpError(NotFound)
        /\ call.outcome.kind = "ok" => call.result.shape = "object"
        /\ (call.outcome.kind = "HttpError" /\ call.outcome.status # NotFound) =>
                call.result = GmailRaised(call.outcome)

\* get_history was answered with status 404 and returned None
C21_Witness ==
    /\ call.op = "GmailClient.call" /\ call.method = "get_history"
    /\ call.outcome = HttpError(NotFound)
    /\ call.result = GmailNone

\* the messages of a listing whose fetch does not fail, in listing order
RECURSIVE Remaining(_, _)
Remaining(entries, failing) ==
    IF entries = <<>> THEN <<>>
    ELSE (IF Head(entries) \in failing \/ Head(entries) = "" THEN <<>>
          ELSE <<Head(entries)>>) \o Remaining(Tail(entries), failing)

\* C22: on a provider API error every list/count/search operation of
\* GmailClient (list_messages, list_drafts, list_labels, list_threads,
\* list_unread, search_messages, count_unread) returns an empty list or 0 and
\* does not raise, while every single-entity get/create/update/delete/send
\* operation re-raises the error; in fetch_unread and search_messages a message
\* whose fetch fails is skipped and the remaining messages are still returned
\* in listing order.
C22_ListsReturnEmptyEntitiesRaise ==
    call.op = "GmailClient.call" =>
        /\ (call.outcome.kind = "HttpError"
                /\ call.method \in ListingOps \cup {"search_messages", "fetch_unread"}) =>
                call.result = GmailList(<<>>)
        /\ (call.outcome.kind = "HttpError" /\ call.method = "count_unread") =>
                call.result = GmailNumber(0)
        /\ (call.outcome.kind = "HttpError" /\ call.method \in EntityOps) =>
                call.result = GmailRaised(call.outcome)
        /\ (/\ call.outcome.kind = "ok"
            /\ call.method \in {"search_messages", "fetch_unread"}
            /\ \A i \in 1..Len(call.response.entries) : call.response.entries[i] # "") =>
                call.result = GmailList(Remaining(call.response.entries, call.failing))

\* fetch_unread listed three messages, the fetch of the second failed, and
\* the first and the third were returned
C22_Witness ==
    /\ call.op = "GmailClient.call" /\ call.method = "fetch_unread"
    /\ call.outcome.kind = "ok"
    /\ call.response.entries = <<"m1", "m2", "m3">>
    /\ call.failing = {"m2"}
    /\ call.result = GmailList(<<"m1", "m3">>)

-----------------------------------------------------------------------------
(* Deleting through the layers *)

LayerNames == {"EmailManager", "EmailService", "adapter"}

NextLayers ==
    \/ \E layer \in LayerNames, p \in PermanentArgs, r \in ResolveOutcomes,
          c \in ClientOutcomes, o \in ProviderOutcomes : delete_message(layer, p, r, c, o)
    \/ \E r \in ResolveOutcomes, c \in ClientOutcomes, h \in BOOLEAN,
          o \in ProviderOutcomes : delete_draft(r, c, h, o)
    \/ \E method \in {"get_message", "search_messages", "get_unread_messages"},
          fetched \in FetchedMessages, o \in ProviderOutcomes :
            adapter_messages(method, fetched, o)

SpecLayers == Init /\ [][NextLayers]_vars

Requested(request) ==
    \E i \in 1..Len(call.result.requests) : call.result.requests[i] = request

\* C23: delete_message with permanent = false (the default), at every layer
\* (EmailManager, EmailService, adapter), moves the message to the recoverable
\* trash state and never invokes the provider's permanent delete; the permanent
\* delete is invoked only when permanent = true.
C23_DeleteIsTrashUnlessPermanent ==
    call.op = "Layers.delete_message" =>
        /\ call.permanent_arg # "True" =>
            /\ ~Requested("messages.delete")
            /\ (call.resolve_outcome = "ok" /\ call.client_outcome = "ok") =>
                    call.result.requests = <<"messages.trash">>
            /\ call.result.success <=>
                    (Requested("messages.trash") /\ call.outcome = "ok")
        /\ Requested("messages.delete") => call.permanent_arg = "True"

\* EmailManager.delete_message was called without the permanent argument and
\* the message went to the trash
C23_Witness ==
    /\ call.op = "Layers.delete_message" /\ call.layer = "EmailManager"
    /\ call.permanent_arg = "omitted"
    /\ call.result = LayerResult(<<"messages.trash">>, TRUE, "", "EmailManager")

\* C30: EmailManager.delete_draft returns a result with success = true only
\* when the provider actually deleted the draft; when the provider's deletion
\* fails, the result has success = false and an error.
C30_DeleteDraftReportsFailure ==
    call.op = "EmailManager.delete_draft" =>
        /\ call.result.success =>
                (Requested("drafts.delete") /\ call.outcome = "ok")
        /\ (Requested("drafts.delete") /\ call.outcome # "ok") =>
                (~call.result.success /\ call.result.error # "")

\* C24: for every message returned by the adapter's get_message,
\* search_messages and get_unread_messages, is_read is true exactly when the
\* message's label set does not contain the UNREAD marker.
C24_IsReadIffNotUnread ==
    call.op = "GmailClientAdapter.messages" =>
        \A i \in 1..Len(call.result.messages) :
            call.result.messages[i].is_read
                <=> "UNREAD" \notin call.result.messages[i].formatted_message.labelIds

-----------------------------------------------------------------------------
(* Concurrent create_email_client calls *)

\* self._email_clients[account_name] = client that leaves an entry another
\* caller wrote in place
CacheWrite_KeepFirst(cache, account_name, client) ==
    IF account_name \in DOMAIN cache THEN cache
    ELSE (account_name :> client) @@ cache

\* self._email_clients[account_name] = client
CacheWrite(cache, account_name, client) ==
    (account_name :> client) @@ [k \in DOMAIN cache \ {account_name} |-> cache[k]]

\* a caller enters create_email_client and runs up to the constructor call:
\* it returns the cached client, raises ValueError, or goes on to construct
create_client_check(t, account_name) ==
    LET r == create_email_client_result(email_clients, account_configs,
                                        available_providers, 0, account_name, "ok")
        constructs == /\ account_name \notin DOMAIN email_clients
                      /\ DictHas(account_configs, account_name)
                      /\ DictGet(account_configs, account_name).enabled
                      /\ Lower(DictGet(account_configs, account_name).provider)
                            \in DOMAIN available_providers
    IN  /\ threads.of[t].pc = "idle"
        /\ threads' = [threads EXCEPT !.of[t] =
                IF constructs
                THEN [pc |-> "constructing", name |-> account_name,
                      client_class |-> available_providers[
                            Lower(DictGet(account_configs, account_name).provider)],
                      id |-> 0, result |-> ""]
                ELSE [pc |-> "done", name |-> account_name, client_class |-> "",
                      id |-> IF r.result = "client" THEN r.client.id ELSE 0,
                      result |-> r.result]]
        /\ UNCHANGED <<manager_vars, auth_vars, gmail_vars, email_manager>>

\* client = client_class(config=email_config): the constructor returns a new
\* instance, or raises
create_client_construct(t, outcome) ==
    LET th == threads.of[t]
        made == ClientClassCall(th.client_class,
                    EmailConfig(DictGet(account_configs, th.name)), outcome)
    IN  /\ th.pc = "constructing"
        /\ DictHas(account_configs, th.name)
        /\ next_client_id <= MaxClients
        /\ IF made = "ok"
           THEN /\ threads' = [threads EXCEPT !.of[t] =
                        [th EXCEPT !.pc = "constructed", !.id = next_client_id]]
                /\ next_client_id' = next_client_id + 1
           ELSE /\ threads' = [threads EXCEPT !.of[t] =
                        [th EXCEPT !.pc = "done", !.result = made]]
                /\ next_client_id' = next_client_id
        /\ UNCHANGED <<account_configs, email_clients, available_providers, accounts_file,
                       evicted, ret, auth_vars, gmail_vars, email_manager>>

\* self._email_clients[account_name] = client; return client
create_client_cache(t) ==
    LET th == threads.of[t]
    IN  /\ th.pc = "constructed"
        /\ email_clients' = CacheWrite(email_clients, th.name,
                                [id |-> th.id,
                                 config |-> EmailConfig(DictGet(account_configs, th.name))])
        /\ threads' = [of |-> [threads.of EXCEPT ![t] =
                                    [th EXCEPT !.pc = "done", !.result = "client"]],
                       writes |-> Append(threads.writes, [name |-> th.name, id |-> th.id])]
        /\ ret' = Ret("create_email_client", th.name, "client", th.id)
        /\ UNCHANGED <<account_configs, available_providers, accounts_file, next_client_id,
                       evicted, auth_vars, gmail_vars, email_manager>>

NextRace ==
    \/ \E n \in {"Mock"}, c \in ProviderClasses : register_provider(n, c)
    \/ \E t \in Callers, n \in AccountNames : create_client_check(t, n)
    \/ \E t \in Callers, o \in ConstructorOutcomes : create_client_construct(t, o)
    \/ \E t \in Callers : create_client_cache(t)

SpecRace == Init /\ [][NextRace]_vars

\* the instance written last to the cache for an account, 0 when none was
LastWritten(account_name) ==
    LET W == {i \in 1..Len(threads.writes) : threads.writes[i].name = account_name}
    IN  IF W = {} THEN 0
        ELSE threads.writes[CHOOSE i \in W : \A j \in W : j <= i].id

\* the callers that returned an instance they constructed for the account
Constructed(account_name) ==
    {t \in Callers : /\ threads.of[t].pc = "done"
                     /\ threads.of[t].name = account_name
                     /\ threads.of[t].result = "client"
                     /\ \E i \in 1..Len(threads.writes) :
                            threads.writes[i].id = threads.of[t].id}

\* C25: with two concurrent callers sharing one account manager, simultaneous
\* create_email_client calls for the same not-yet-cached account can both pass
\* the cache check and construct two client instances; the cache ends up
\* holding the instance written last, so the callers can hold different
\* instances for one account. As an invariant: every caller past the check
\* constructs whatever the cache holds by then, and the cache entry of an
\* account is the instance written last.
C25_LastCacheWriteWins ==
    /\ \A n \in AccountNames :
            LastWritten(n) # 0 => (n \in DOMAIN email_clients
                                    /\ email_clients[n].id = LastWritten(n))
    /\ \A t, u \in Callers :
            (t # u /\ threads.of[t].pc = "constructed" /\ threads.of[u].pc = "constructed")
                => threads.of[t].id # threads.of[u].id

\* both callers constructed an instance for the same account and returned;
\* they hold different instances, and the cache holds the one written last
C25_Witness ==
    \E n \in AccountNames :
        /\ Constructed(n) = Callers
        /\ threads.of["t1"].id # threads.of["t2"].id
        /\ email_clients[n].id = LastWritten(n)
        /\ \E t \in Callers : threads.of[t].id # email_clients[n].id

-----------------------------------------------------------------------------
(* EmailManager: one EmailService per account, over Config.email_accounts *)

\* list(AVAILABLE_CLIENTS.keys())
get_supported_providers == {"gmail"}

\* the accounts handed to Config.add_email_account
ConfiguredAccounts ==
    {EmailAccountConfig(n, p, "", CredPath, TokenPath, e, d) :
        n \in AccountNames, p \in {"gmail", "Mock"}, e \in BOOLEAN, d \in BOOLEAN}

NoAccount == [found |-> FALSE, name |-> ""]

FoundAccount(config) == [found |-> TRUE, name |-> config.name]

\* self.email_accounts.get(account_name)
get_email_account_config(email_accounts, account_name) ==
    IF DictHas(email_accounts, account_name)
    THEN FoundAccount(DictGet(email_accounts, account_name))
    ELSE NoAccount

\* for account in self.email_accounts.values():
\*     if account.default_account and account.enabled: return account
RECURSIVE FirstMarkedDefault(_, _)
FirstMarkedDefault(email_accounts, i) ==
    IF i > Len(email_accounts) THEN NoAccount
    ELSE IF email_accounts[i].config.default_account /\ email_accounts[i].config.enabled
         THEN FoundAccount(email_accounts[i].config)
         ELSE FirstMarkedDefault(email_accounts, i + 1)

get_default_email_account(email_accounts, default_email_account) ==
    IF FirstMarkedDefault(email_accounts, 1).found
    THEN FirstMarkedDefault(email_accounts, 1)
    ELSE get_email_account_config(email_accounts, default_email_account)

\* [acc.name for acc in self.config.list_email_accounts(enabled_only=True)]
available_accounts(email_accounts) ==
    LET enabled == SelectSeq(email_accounts, LAMBDA e : e.config.enabled)
    IN  [i \in 1..Len(enabled) |-> enabled[i].config.name]

\* EmailManager.get_default_account: the name returned, or the exception raised
get_default_account(email_accounts, default_email_account) ==
    LET default_account == get_default_email_account(email_accounts, default_email_account)
    IN  IF ~default_account.found THEN "ValueError" ELSE default_account.name

\* EmailManager.get_email_service: the service cache afterwards, and the
\* EmailService returned or the exception raised
get_email_service_result(email_services, email_accounts, account_name) ==
    IF account_name \notin DOMAIN email_services
    THEN IF ~DictHas(email_accounts, account_name)
         THEN [email_services |-> email_services, result |-> "ValueError",
               error |-> "not configured"]
         ELSE LET account_config == DictGet(email_accounts, account_name)
              IN  IF ~account_config.enabled
                  THEN [email_services |-> email_services, result |-> "ValueError",
                        error |-> "is disabled"]
                  ELSE IF Lower(account_config.provider) \notin get_supported_providers
                  THEN [email_services |-> email_services, result |-> "ValueError",
                        error |-> "Unsupported email provider"]
                  ELSE [email_services |->
                            [n \in (DOMAIN email_services) \cup {account_name} |->
                                IF n = account_name
                                THEN Lower(account_config.provider)
                                ELSE email_services[n]],
                        result |-> "EmailService", error |-> ""]
    ELSE [email_services |-> email_services, result |-> "EmailService", error |-> ""]

ManagerCall(op, name, result, error) ==
    [op |-> op, name |-> name, result |-> result, error |-> error,
     available_accounts |-> <<>>]

add_email_account(account_config) ==
    /\ email_manager' = [email_manager EXCEPT !.email_accounts =
                            DictSet(@, account_config.name, account_config)]
    /\ call' = ManagerCall("Config.add_email_account", account_config.name, None, "")
    /\ UNCHANGED <<manager_vars, auth_vars, service, api_call, threads>>

remove_email_account(account_name) ==
    /\ email_manager' = [email_manager EXCEPT !.email_accounts =
                            IF DictHas(@, account_name) THEN DictDel(@, account_name) ELSE @]
    /\ call' = ManagerCall("Config.remove_email_account", account_name,
                           BoolStr(DictHas(email_manager.email_accounts, account_name)), "")
    /\ UNCHANGED <<manager_vars, auth_vars, service, api_call, threads>>

get_email_service(account_name) ==
    LET r == get_email_service_result(email_manager.email_services,
                                      email_manager.email_accounts, account_name)
    IN  /\ email_manager' = [email_manager EXCEPT !.email_services = r.email_services]
        /\ call' = ManagerCall("EmailManager.get_email_service", account_name,
                               r.result, r.error)
        /\ UNCHANGED <<manager_vars, auth_vars, service, api_call, threads>>

manager_get_default_account ==
    /\ call' = ManagerCall("EmailManager.get_default_account", None,
                           get_default_account(email_manager.email_accounts,
                                               email_manager.default_email_account), "")
    /\ UNCHANGED <<manager_vars, auth_vars, service, api_call, threads, email_manager>>

\* get_summary: 'available_accounts' and 'default_account' of the summary
get_summary ==
    LET accounts == available_accounts(email_manager.email_accounts)
        default_account == get_default_account(email_manager.email_accounts,
                                               email_manager.default_email_account)
    IN  /\ call' = [ManagerCall("EmailManager.get_summary", None,
                                IF default_account = "ValueError" THEN None
                                ELSE default_account, "")
                        EXCEPT !.available_accounts = accounts]
        /\ UNCHANGED <<manager_vars, auth_vars, service, api_call, threads, email_manager>>

NextEmailManager ==
    \/ \E c \in ConfiguredAccounts : add_email_account(c)
    \/ \E n \in AccountNames : remove_email_account(n)
    \/ \E n \in AccountNames : get_email_service(n)
    \/ manager_get_default_account
    \/ get_summary

SpecEmailManager == Init /\ [][NextEmailManager]_vars

\* the account is in Config.email_accounts and enabled
ConfiguredAndEnabled(account_name) ==
    /\ DictHas(email_manager.email_accounts, account_name)
    /\ DictGet(email_manager.email_accounts, account_name).enabled

\* C26: EmailManager.get_email_service(name) raises ValueError whenever, at the
\* time of the call, the account is not configured or is disabled, also when a
\* service for the account was created earlier and the account was disabled or
\* removed from the configuration afterwards.
C26_GetServiceChecksConfigAtCallTime ==
    (call.op = "EmailManager.get_email_service" /\ ~ConfiguredAndEnabled(call.name))
        => call.result = "ValueError"

\* the names of the enabled accounts
EnabledNames == set(available_accounts(email_manager.email_accounts))

\* C28: default resolution used by EmailManager never yields a disabled
\* account: a name returned by get_default_account is an enabled account and a
\* member of available_accounts, get_summary's default_account is None or one
\* of its available_accounts, and with no account enabled get_default_account
\* raises.
C28_DefaultIsNeverDisabled ==
    /\ (call.op = "EmailManager.get_default_account" /\ call.result # "ValueError")
            => (ConfiguredAndEnabled(call.result) /\ call.result \in EnabledNames)
    /\ (call.op = "EmailManager.get_default_account" /\ EnabledNames = {})
            => call.result = "ValueError"
    /\ call.op = "EmailManager.get_summary"
            => (call.result = None \/ call.result \in set(call.available_accounts))

-----------------------------------------------------------------------------
(* Restart: a new EmailAccountManager over the file the previous one left *)

\* EmailAccountManager.__init__ in a new process: an empty client cache, the
\* default providers, and the directory read by _load_account_configs
restart ==
    /\ account_configs' = load_accounts_from_file(accounts_file)
    /\ email_clients' = NoClients
    /\ available_providers' = [k \in {"gmail"} |-> "GmailClientAdapter"]
    /\ evicted' = evicted \cup CachedIds(email_clients, DOMAIN email_clients)
    /\ ret' = Ret("__init__", None, None, 0)
    /\ UNCHANGED <<accounts_file, next_client_id, auth_vars, gmail_vars, threads,
                   email_manager>>

NextRestart ==
    \/ \E c \in PersistAccountConfigs, o \in SaveOutcomes : add_account(c, o)
    \/ \E n \in AccountNames, o \in SaveOutcomes : delete_account(n, o)
    \/ \E n \in AccountNames, u \in PersistUpdateInputs, o \in SaveOutcomes :
            update_account(n, u, o)
    \/ restart

SpecRestart == Init /\ [][NextRestart]_vars

PersistedFields ==
    {"name", "provider", "display_name", "google_credentials_path",
     "google_token_path", "enabled", "default_account"}

\* the same account names in the same order, with the same persisted fields
SameDirectory(a, b) ==
    /\ Len(a) = Len(b)
    /\ \A i \in 1..Len(a) :
            /\ a[i].key = b[i].key
            /\ \A f \in PersistedFields : a[i].config[f] = b[i].config[f]

\* C27: restart round-trip of the account directory. When the last add_account,
\* update_account or delete_account call returned True, a new
\* EmailAccountManager constructed from the file has the same account names in
\* the same order with the same seven persisted fields; and a manager that
\* starts with the single synthesized account 'default' without the file
\* listing exactly that account found the file missing or unparsable.
C27_RestartRoundTrip ==
    [][ ret'.op = "__init__" =>
            /\ (ret.op \in {"add_account", "update_account", "delete_account"}
                /\ ret.result = "True")
                    => SameDirectory(account_configs', account_configs)
            /\ (account_configs' = _get_default_accounts
                /\ accounts_file.state = "json")
                    => accounts_file.data = AccountsToJson(_get_default_accounts)
      ]_vars

\* a manager restarted from a file that lists two accounts, one of them written
\* with a null credentials path: the directory holds both, the path is None
C27_Witness ==
    /\ ret.op = "__init__"
    /\ accounts_file.state = "json"
    /\ Len(account_configs) = 2
    /\ DictHas(account_configs, "work")
    /\ DictGet(account_configs, "work").google_credentials_path = None
    /\ account_configs = load_accounts_from_file(accounts_file)

\* C29: an add_account, update_account or delete_account call that returns
\* False (account not found, or the persist step failed) leaves the in-memory
\* account directory and the client cache exactly as they were before the call.
C29_FailedCallLeavesStateUnchanged ==
    [][ (/\ ret'.op \in {"add_account", "update_account", "delete_account"}
         /\ ret'.result \in {"False", "False: not found"})
            => /\ account_configs' = account_configs
               /\ email_clients' = email_clients
      ]_vars

====
